---- MODULE Spec2Model ----
(***************************************************************************)
(* The duplicate-transaction detector of src/src/plugins/find_duplicates.py *)
(* as a state machine: one run of plugin(entries, options, config_str).     *)
(*                                                                         *)
(* Representation.                                                         *)
(*  - Decimal amounts and the tolerance are integers in cents.             *)
(*  - Float thresholds are integers in hundredths (0.95 is 95).            *)
(*  - A score is an exact rational [n, d] in lowest terms.                 *)
(*  - Every config value is a record [t, nan, v]: its Python type, whether  *)
(*    it is a NaN, and its number (a boolean is 0 or 1).                   *)
(*  - An account is the sequence of its ":"-separated segments.            *)
(*  - A transaction object is named by its position in entries.            *)
(***************************************************************************)
EXTENDS Integers, Sequences, FiniteSets, TLC

VARIABLES
    entries,      \* the caller's entries list, as passed to plugin
    config_str,   \* the config string, as the list of parts shlex.split returns
    pc,           \* position of the run: start, parsed, loop, done, raised
    cfg,          \* plugin's local cfg
    txns,         \* plugin's local txns: positions of the Transaction entries
    index,        \* plugin's local index: the buckets, in insertion order
    g,            \* number of groups of index.values() already taken
    pairs,        \* the pairs candidate_pairs yields for the current group
    k,            \* number of pairs of the current group already scored
    diagnostics,  \* plugin's local diagnostics list
    warnings,     \* the messages the current call passed to logging.warning, in order
    result,       \* what plugin returned (empty until it returns)
    scored,       \* history: every pair scored so far, with its score and outcome
    earlier,      \* history: the calls of plugin that ended before the current one
    module_default_config,  \* the module-level table _DEFAULT_CONFIG
    module_weights          \* the module-level table _WEIGHTS

vars == <<entries, config_str, pc, cfg, txns, index, g, pairs, k,
          diagnostics, warnings, result, scored, earlier,
          module_default_config, module_weights>>

----------------------------------------------------------------------------
(* Bounds of the model *)

MaxEntries == 3
MaxDate == 1
MaxParts == 2
MaxCalls == 2
MaxWindow == 4

----------------------------------------------------------------------------
(* Program constants *)

WeightAmount == 50
WeightDate == 30
WeightAccount == 20
WeightProperty == 20
DefaultErrorThreshold == 95
DefaultWarnThreshold == 80
DefaultWindow == 3
DefaultTolerance == 3

----------------------------------------------------------------------------
(* Values *)

IntVal(n) == [t |-> "int", nan |-> FALSE, v |-> n]
DecVal(c) == [t |-> "Decimal", nan |-> FALSE, v |-> c]
DecNaN == [t |-> "Decimal", nan |-> TRUE, v |-> 0]
FloatVal(h) == [t |-> "float", nan |-> FALSE, v |-> h]
FloatNaN == [t |-> "float", nan |-> TRUE, v |-> 0]
BoolVal(b) == [t |-> "bool", nan |-> FALSE, v |-> IF b THEN 1 ELSE 0]

Truthy(val) == val.v # 0

None == [isnone |-> TRUE, v |-> 0]
NoCurrency == [isnone |-> TRUE, v |-> ""]
Some(x) == [isnone |-> FALSE, v |-> x]

Abs(n) == IF n < 0 THEN -n ELSE n

RECURSIVE GCD(_, _)
GCD(a, b) == IF b = 0 THEN a ELSE GCD(b, a % b)

\* The rational n/d (d > 0) in lowest terms.
Rat(n, d) == LET c == GCD(Abs(n), d) IN [n |-> n \div c, d |-> d \div c]

Zero == Rat(0, 1)
One == Rat(1, 1)

\* Python's f"{x:.2f}" of a score, as a number of hundredths.
Round2(r) == (2 * 100 * r.n + r.d) \div (2 * r.d)

----------------------------------------------------------------------------
(* Literals of a config string and what int(), Decimal() and float() make of them *)

Numerals == {"0", "1", "3", "-1", "0.03", "0.5", "0.8", "0.95"}
IntegerNumerals == {"0", "1", "3", "-1"}
NaNLiterals == {"NaN"}

\* The number a numeral denotes, in hundredths.
Hundredths(s) ==
    CASE s = "0" -> 0
      [] s = "1" -> 100
      [] s = "3" -> 300
      [] s = "-1" -> -100
      [] s = "0.03" -> 3
      [] s = "0.5" -> 50
      [] s = "0.8" -> 80
      [] s = "0.95" -> 95

Lower(s) ==
    CASE s = "YES" -> "yes"
      [] s = "True" -> "true"
      [] s = "NaN" -> "nan"
      [] s = "206-Hoover-Ave" -> "206-hoover-ave"
      [] s = "2943-Butterfly-Palm" -> "2943-butterfly-palm"
      [] s = "Rent" -> "rent"
      [] OTHER -> s

Raised == [ok |-> FALSE, val |-> IntVal(0)]
Ok(val) == [ok |-> TRUE, val |-> val]

ParseInt(s) ==
    IF s \in IntegerNumerals THEN Ok(IntVal(Hundredths(s) \div 100)) ELSE Raised

ParseDecimal(s) ==
    IF s \in Numerals THEN Ok(DecVal(Hundredths(s)))
    ELSE IF s \in NaNLiterals THEN Ok(DecNaN)
    ELSE Raised

ParseFloat(s) ==
    IF s \in Numerals THEN Ok(FloatVal(Hundredths(s)))
    ELSE IF s \in NaNLiterals THEN Ok(FloatNaN)
    ELSE Raised

\* A parser that accepts only the six boolean literals and raises on any other.
ParseBoolStrict(s) ==
    IF Lower(s) \in {"1", "true", "yes"} THEN Ok(BoolVal(TRUE))
    ELSE IF Lower(s) \in {"0", "false", "no"} THEN Ok(BoolVal(FALSE))
    ELSE Raised

ParseBool(s) == Ok(BoolVal(Lower(s) \in {"1", "true", "yes"}))

----------------------------------------------------------------------------
(* parse_config *)

CanonicalKeys == {"error_score_threshold", "warn_score_threshold", "date_window_days",
                  "amount_tolerance", "cash_accounts_only", "require_property_match"}

DEFAULT_CONFIG ==
    [key \in CanonicalKeys |->
        CASE key = "error_score_threshold" -> FloatVal(DefaultErrorThreshold)
          [] key = "warn_score_threshold" -> FloatVal(DefaultWarnThreshold)
          [] key = "date_window_days" -> IntVal(DefaultWindow)
          [] key = "amount_tolerance" -> DecVal(DefaultTolerance)
          [] key = "cash_accounts_only" -> BoolVal(FALSE)
          [] key = "require_property_match" -> BoolVal(FALSE)]

ShortKeys == {"warn_threshold", "error_threshold", "window", "tolerance",
              "cash_only", "property_match"}

aliases(key) ==
    CASE key = "warn_threshold" -> "warn_score_threshold"
      [] key = "error_threshold" -> "error_score_threshold"
      [] key = "window" -> "date_window_days"
      [] key = "tolerance" -> "amount_tolerance"
      [] key = "cash_only" -> "cash_accounts_only"
      [] key = "property_match" -> "require_property_match"
      [] OTHER -> key

\* A parser that rejects every key that is not a setting.
CoerceKnownOnly(key, value) ==
    IF key = "date_window_days" THEN ParseInt(value)
    ELSE IF key = "amount_tolerance" THEN ParseDecimal(value)
    ELSE IF key = "cash_accounts_only" THEN ParseBool(value)
    ELSE IF key = "require_property_match" THEN ParseBool(value)
    ELSE IF key \in {"error_score_threshold", "warn_score_threshold"} THEN ParseFloat(value)
    ELSE Raised

\* The if/elif chain of parse_config: the value stored for a key, or the raise.
Coerce(key, value) ==
    IF key = "date_window_days" THEN ParseInt(value)
    ELSE IF key = "amount_tolerance" THEN ParseDecimal(value)
    ELSE IF key = "cash_accounts_only" THEN ParseBool(value)
    ELSE IF key = "require_property_match" THEN ParseBool(value)
    ELSE ParseFloat(value)

SetItem(d, key, val) ==
    [x \in DOMAIN d \cup {key} |-> IF x = key THEN val ELSE d[x]]

\* The key as written: the alias table is not consulted.
StoreKeyAsGiven(key) == key

\* The key under which a part's value is stored.
StoreKey(key) == aliases(key)

\* A part "key=value" and a part without "=".
KV(key, value) == [haseq |-> TRUE, key |-> key, value |-> value]
Bare(word) == [haseq |-> FALSE, key |-> word, value |-> ""]

RECURSIVE ParseParts(_, _)
ParseParts(c, parts) ==
    IF parts = <<>> THEN [ok |-> TRUE, cfg |-> c]
    ELSE LET part == Head(parts) IN
         IF ~part.haseq THEN ParseParts(c, Tail(parts))
         ELSE LET key == StoreKey(part.key)
                  got == Coerce(key, part.value)
              IN IF ~got.ok THEN [ok |-> FALSE, cfg |-> c]
                 ELSE ParseParts(SetItem(c, key, got.val), Tail(parts))

\* parse_config reading the module table as a call finds it: cfg = dict(_DEFAULT_CONFIG)
parse_config_from(table, s) == ParseParts(table, s)

\* parse_config in a freshly imported module.
parse_config(s) == parse_config_from(DEFAULT_CONFIG, s)

\* _DEFAULT_CONFIG after a call of parse_config that left cfg as parsed: cfg is a copy.
DefaultsAfterParse(table, parsed) == table

----------------------------------------------------------------------------
(* Transactions *)

NoUnits == [has |-> FALSE, number |-> 0, currency |-> ""]
Units(number, currency) == [has |-> TRUE, number |-> number, currency |-> currency]
Posting(account, units) == [account |-> account, units |-> units]

\* posting.account.startswith("Assets:")
IsAssets(account) == Len(account) >= 2 /\ account[1] = "Assets"

\* _PROPERTY_RE.match on the strings of the model: 3 or 4 digits, "-", a letter.
PROPERTY_RE(s) ==
    s \in {"206-Hoover-Ave", "206-hoover-ave", "2943-Butterfly-Palm", "2943-butterfly-palm"}

Range(s) == {s[i] : i \in DOMAIN s}

\* Every posting with units, whatever its account.
postings_with_units(txn, cash_only) ==
    SelectSeq(txn.postings, LAMBDA p : p.units.has)

postings_for_amount(txn, cash_only) ==
    SelectSeq(txn.postings,
              LAMBDA p : p.units.has /\ ~(cash_only /\ ~IsAssets(p.account)))

first_currency(txn, cash_only) ==
    LET postings == postings_for_amount(txn, cash_only) IN
    IF postings = <<>> THEN NoCurrency ELSE Some(postings[1].units.currency)

RECURSIVE SumNumbers(_)
SumNumbers(postings) ==
    IF postings = <<>> THEN 0
    ELSE Head(postings).units.number + SumNumbers(Tail(postings))

\* The net over every posting with units, whatever cash_only says.
net_amount_all(txn, cash_only) ==
    LET postings == postings_for_amount(txn, FALSE) IN
    IF postings = <<>> THEN None ELSE Some(SumNumbers(postings))

net_amount(txn, cash_only) ==
    LET postings == postings_for_amount(txn, cash_only) IN
    IF postings = <<>> THEN None ELSE Some(SumNumbers(postings))

cash_accounts(txn) ==
    {p.account : p \in {q \in Range(txn.postings) : IsAssets(q.account)}}

property_tokens(txn) ==
    {Lower(tag) : tag \in {x \in txn.tags : PROPERTY_RE(x)}}
    \cup {Lower(seg) : seg \in {x \in UNION {Range(p.account) : p \in Range(txn.postings)} :
                                 PROPERTY_RE(x)}}

has_property_tokens(txn_a, txn_b) ==
    property_tokens(txn_a) # {} /\ property_tokens(txn_b) # {}

property_score(txn_a, txn_b) ==
    LET tokens_a == property_tokens(txn_a)
        tokens_b == property_tokens(txn_b)
    IN IF tokens_a = {} \/ tokens_b = {} THEN 0
       ELSE IF tokens_a \cap tokens_b # {} THEN 1 ELSE 0

account_score(txn_a, txn_b) ==
    IF cash_accounts(txn_a) \cap cash_accounts(txn_b) # {} THEN 1 ELSE 0

\* 1.0 - delta / window without the max(0.0, ...).
date_score_unclamped(txn_a, txn_b, window) ==
    IF window <= 0 THEN Zero
    ELSE Rat(window - Abs(txn_a.date - txn_b.date), window)

\* A step instead of the linear decay: 1.0 anywhere within the window.
date_score_step(txn_a, txn_b, window) ==
    IF window <= 0 THEN Zero
    ELSE IF Abs(txn_a.date - txn_b.date) <= window THEN One ELSE Zero

\* A window <= 0 read as "the same day only": 1.0 on the same day.
date_score_same_day(txn_a, txn_b, window) ==
    LET delta == Abs(txn_a.date - txn_b.date) IN
    IF window <= 0 THEN (IF delta = 0 THEN One ELSE Zero)
    ELSE IF window - delta < 0 THEN Zero ELSE Rat(window - delta, window)

\* A negative window read as its magnitude; only window = 0 returns 0.0 at once.
date_score_abs_window(txn_a, txn_b, window) ==
    LET delta == Abs(txn_a.date - txn_b.date) IN
    IF window = 0 THEN Zero
    ELSE IF Abs(window) - delta < 0 THEN Zero ELSE Rat(Abs(window) - delta, Abs(window))

\* max(0.0, 1.0 - delta / window), and 0.0 for a window <= 0.
date_score(txn_a, txn_b, window) ==
    IF window <= 0 THEN Zero
    ELSE LET delta == Abs(txn_a.date - txn_b.date) IN
         IF window - delta < 0 THEN Zero ELSE Rat(window - delta, window)

\* The comparison "delta < tolerance": a difference equal to the tolerance is no match.
amount_score_strict(txn_a, txn_b, tolerance, cash_only) ==
    LET amount_a == net_amount(txn_a, cash_only)
        amount_b == net_amount(txn_b, cash_only)
    IN IF amount_a.isnone \/ amount_b.isnone THEN [raised |-> FALSE, v |-> 0]
       ELSE IF tolerance.nan THEN [raised |-> TRUE, v |-> 0]
       ELSE [raised |-> FALSE,
             v |-> IF Abs(amount_a.v - amount_b.v) < tolerance.v THEN 1 ELSE 0]

\* The magnitudes of the net amounts compared, not the signed amounts.
amount_score_abs(txn_a, txn_b, tolerance, cash_only) ==
    LET amount_a == net_amount(txn_a, cash_only)
        amount_b == net_amount(txn_b, cash_only)
    IN IF amount_a.isnone \/ amount_b.isnone THEN [raised |-> FALSE, v |-> 0]
       ELSE IF tolerance.nan THEN [raised |-> TRUE, v |-> 0]
       ELSE [raised |-> FALSE,
             v |-> IF Abs(Abs(amount_a.v) - Abs(amount_b.v)) <= tolerance.v THEN 1 ELSE 0]

\* [raised, v]: "delta <= tolerance" raises decimal.InvalidOperation on a NaN tolerance.
amount_score(txn_a, txn_b, tolerance, cash_only) ==
    LET amount_a == net_amount(txn_a, cash_only)
        amount_b == net_amount(txn_b, cash_only)
    IN IF amount_a.isnone \/ amount_b.isnone THEN [raised |-> FALSE, v |-> 0]
       ELSE IF tolerance.nan THEN [raised |-> TRUE, v |-> 0]
       ELSE [raised |-> FALSE,
             v |-> IF Abs(amount_a.v - amount_b.v) <= tolerance.v THEN 1 ELSE 0]

\* No veto: the property component is only one more weight.
PropertyWeightOnly(txn_a, txn_b, c) == FALSE

\* A veto that does not ask whether both transactions have tokens.
VetoWithoutTokens(txn_a, txn_b, c) ==
    /\ Truthy(c["require_property_match"])
    /\ property_score(txn_a, txn_b) = 0

\* The veto of confidence_score: property matching is on, both have tokens, none shared.
PropertyVeto(txn_a, txn_b, c) ==
    /\ Truthy(c["require_property_match"])
    /\ property_score(txn_a, txn_b) = 0
    /\ has_property_tokens(txn_a, txn_b)

\* min(1.0, score)
Clamp(r) == IF r.n > r.d THEN One ELSE r

\* _WEIGHTS
WEIGHTS ==
    [key \in {"amount", "date", "account"} |->
        CASE key = "amount" -> WeightAmount
          [] key = "date" -> WeightDate
          [] key = "account" -> WeightAccount]

\* weights = dict(_WEIGHTS); if require_property_match: weights["property"] = 0.2
LocalWeights(table, c) ==
    IF Truthy(c["require_property_match"]) THEN SetItem(table, "property", WeightProperty)
    ELSE table

\* sum(weights.values())
RECURSIVE SumValues(_, _)
SumValues(d, keys) ==
    IF keys = {} THEN 0
    ELSE LET key == CHOOSE x \in keys : TRUE IN d[key] + SumValues(d, keys \ {key})

\* The weights of the three base components only: no re-normalisation.
BaseWeight(weights) == WeightAmount + WeightDate + WeightAccount

\* total_weight = sum(weights.values())
TotalWeight(weights) == SumValues(weights, DOMAIN weights)

\* weights is the module table itself: the "property" entry stays in _WEIGHTS.
WeightsShared(table, txn_a, txn_b, c) ==
    IF PropertyVeto(txn_a, txn_b, c) THEN table ELSE LocalWeights(table, c)

\* _WEIGHTS after a call of confidence_score that returned: weights is a copy.
WeightsAfterScore(table, txn_a, txn_b, c) == table

\* [raised, score, parts]; parts is the breakdown, key -> rational. table is _WEIGHTS as
\* the call finds it.
confidence_score_from(table, txn_a, txn_b, c) ==
    IF PropertyVeto(txn_a, txn_b, c)
    THEN [raised |-> FALSE, score |-> Zero,
          parts |-> [x \in {"amount", "date", "account", "property"} |-> Zero]]
    ELSE
    LET req == Truthy(c["require_property_match"])
        property_val == IF req THEN property_score(txn_a, txn_b) ELSE 0
        amount == amount_score(txn_a, txn_b, c["amount_tolerance"],
                               Truthy(c["cash_accounts_only"]))
        date_val == date_score(txn_a, txn_b, c["date_window_days"].v)
        account_val == account_score(txn_a, txn_b)
        weights == LocalWeights(table, c)
        total_weight == TotalWeight(weights)
        whole == weights["amount"] * amount.v + weights["account"] * account_val
                 + (IF req THEN weights["property"] * property_val ELSE 0)
        score == Rat(whole * date_val.d + weights["date"] * date_val.n,
                     total_weight * date_val.d)
        base == [x \in {"amount", "date", "account"} |->
                   CASE x = "amount" -> Rat(amount.v, 1)
                     [] x = "date" -> date_val
                     [] x = "account" -> Rat(account_val, 1)]
    IN IF amount.raised THEN [raised |-> TRUE, score |-> Zero, parts |-> base]
       ELSE [raised |-> FALSE, score |-> Clamp(score),
             parts |-> IF req THEN SetItem(base, "property", Rat(property_val, 1))
                       ELSE base]

\* confidence_score in a freshly imported module.
confidence_score(txn_a, txn_b, c) == confidence_score_from(WEIGHTS, txn_a, txn_b, c)

\* The comparison the other way round: score <= threshold.
AtMost(score, threshold) ==
    ~threshold.nan /\ 100 * score.n <= threshold.v * score.d

\* score >= threshold, for a float threshold (a NaN compares false).
AtLeast(score, threshold) ==
    ~threshold.nan /\ 100 * score.n >= threshold.v * score.d

----------------------------------------------------------------------------
(* index_transactions and candidate_pairs; a transaction is its position in ents *)

\* A key without the currency.
BucketKeyAmountOnly(currency, amount, c) ==
    IF ~c["amount_tolerance"].nan /\ c["amount_tolerance"].v = 0
    THEN <<amount>> ELSE <<"*">>

BucketKey(currency, amount, c) ==
    IF ~c["amount_tolerance"].nan /\ c["amount_tolerance"].v = 0
    THEN <<currency, amount>> ELSE <<currency>>

\* The transaction put at the front of its bucket.
PrependTo(idx, key, p) ==
    IF \E i \in DOMAIN idx : idx[i].key = key
    THEN [i \in DOMAIN idx |->
            IF idx[i].key = key THEN [idx[i] EXCEPT !.txns = <<p>> \o @] ELSE idx[i]]
    ELSE Append(idx, [key |-> key, txns |-> <<p>>])

\* index[key].append(p)
AppendTo(idx, key, p) ==
    IF \E i \in DOMAIN idx : idx[i].key = key
    THEN [i \in DOMAIN idx |->
            IF idx[i].key = key THEN [idx[i] EXCEPT !.txns = Append(@, p)] ELSE idx[i]]
    ELSE Append(idx, [key |-> key, txns |-> <<p>>])

\* The net amount with its sign.
SignedAmount(net) == net

\* amount = abs(net_amount(txn, cfg["cash_accounts_only"]))
BucketAmount(net) == Abs(net)

\* Whether index_transactions takes the transaction (neither "continue" is taken).
Indexed(txn, c) ==
    ~first_currency(txn, Truthy(c["cash_accounts_only"])).isnone

RECURSIVE IndexFrom(_, _, _, _)
IndexFrom(ents, ps, c, idx) ==
    IF ps = <<>> THEN idx
    ELSE LET p == Head(ps)
             cash_only == Truthy(c["cash_accounts_only"])
             currency == first_currency(ents[p], cash_only)
         IN IF ~Indexed(ents[p], c) THEN IndexFrom(ents, Tail(ps), c, idx)
            ELSE LET amount == BucketAmount(net_amount(ents[p], cash_only).v) IN
                 IndexFrom(ents, Tail(ps), c,
                           AppendTo(idx, BucketKey(currency.v, amount, c), p))

index_transactions(ents, ps, c) == IndexFrom(ents, ps, c, <<>>)

\* Where sorted() puts x in an already sorted list: after every element not later than it.
RECURSIVE InsertByDate(_, _, _)
InsertByDate(ents, sorted, x) ==
    IF sorted = <<>> THEN <<x>>
    ELSE IF ents[x].date < ents[Head(sorted)].date THEN <<x>> \o sorted
    ELSE <<Head(sorted)>> \o InsertByDate(ents, Tail(sorted), x)

RECURSIVE SortFrom(_, _, _)
SortFrom(ents, ps, sorted) ==
    IF ps = <<>> THEN sorted
    ELSE SortFrom(ents, Tail(ps), InsertByDate(ents, sorted, Head(ps)))

\* The list as given: no sort.
InputOrder(ents, ps) == ps

\* sorted(txns, key=lambda txn: txn.date)
SortedByDate(ents, ps) == SortFrom(ents, ps, <<>>)

\* An inner loop that breaks already at a b exactly window days from a.
RECURSIVE InnerLoopStrict(_, _, _, _, _)
InnerLoopStrict(ents, sorted, i, j, window) ==
    IF j > Len(sorted) THEN <<>>
    ELSE IF Abs(ents[sorted[j]].date - ents[sorted[i]].date) >= window THEN <<>>
    ELSE << <<sorted[i], sorted[j]>> >> \o InnerLoopStrict(ents, sorted, i, j + 1, window)

\* The inner loop from position j on: it breaks at the first b beyond the window.
RECURSIVE InnerLoop(_, _, _, _, _)
InnerLoop(ents, sorted, i, j, window) ==
    IF j > Len(sorted) THEN <<>>
    ELSE IF Abs(ents[sorted[j]].date - ents[sorted[i]].date) > window THEN <<>>
    ELSE << <<sorted[i], sorted[j]>> >> \o InnerLoop(ents, sorted, i, j + 1, window)

RECURSIVE OuterLoop(_, _, _, _)
OuterLoop(ents, sorted, i, window) ==
    IF i > Len(sorted) THEN <<>>
    ELSE InnerLoop(ents, sorted, i, i + 1, window) \o OuterLoop(ents, sorted, i + 1, window)

candidate_pairs(ents, ps, window) == OuterLoop(ents, SortedByDate(ents, ps), 1, window)

----------------------------------------------------------------------------
(* The decision of plugin's loop body, the diagnostics and the messages *)

\* The two tests in the other order.
DecideWarnFirst(score, c) ==
    IF AtLeast(score, c["warn_score_threshold"]) THEN "warning"
    ELSE IF AtLeast(score, c["error_score_threshold"]) THEN "error"
    ELSE "none"

\* Thresholds put in order before use: the larger one decides errors, the smaller one
\* warnings.
DecideOrdered(score, c) ==
    LET e == c["error_score_threshold"]
        w == c["warn_score_threshold"]
        swap == ~e.nan /\ ~w.nan /\ e.v < w.v
    IN IF AtLeast(score, IF swap THEN w ELSE e) THEN "error"
       ELSE IF AtLeast(score, IF swap THEN e ELSE w) THEN "warning"
       ELSE "none"

\* The branch plugin takes for a score: the error test comes first, the warning is its elif.
Decide(score, c) ==
    IF AtLeast(score, c["error_score_threshold"]) THEN "error"
    ELSE IF AtLeast(score, c["warn_score_threshold"]) THEN "warning"
    ELSE "none"

new_metadata(filename, lineno) == [filename |-> filename, lineno |-> lineno]

\* "txn_b.meta or ...": an empty (or missing) meta is falsy.
MetaTruthy(meta) == DOMAIN meta # {}

message(txn_a, txn_b, score, parts) ==
    [score |-> Round2(score),
     detail |-> [x \in DOMAIN parts |-> Round2(parts[x])],
     later |-> txn_b.date,
     earlier |-> txn_a.date]

\* The earlier transaction of the pair.
FlaggedEarlier(pa, pb) == pa

\* The transaction a diagnostic is attached to, of the pair (a, b) at positions pa, pb.
Flagged(pa, pb) == pb

\* _error(txn_b, txn_a, score, parts) for the pair at positions pa, pb.
error(ents, pa, pb, score, parts) ==
    LET f == Flagged(pa, pb) IN
    [source |-> IF MetaTruthy(ents[f].meta) THEN ents[f].meta
                ELSE new_metadata("<find_duplicates>", 0),
     message |-> message(ents[pa], ents[pb], score, parts),
     entry |-> f]

\* The transactions only.
ReturnedTransactions(ents, ps) == [i \in DOMAIN ps |-> ents[ps[i]]]

\* The first element of the tuple plugin returns.
ReturnedEntries(ents, ps) == ents

\* [entry for entry in entries if isinstance(entry, data.Transaction)], as positions.
Transactions(ents) ==
    SelectSeq([i \in DOMAIN ents |-> i], LAMBDA i : ents[i].kind = "Transaction")

----------------------------------------------------------------------------
(* The inputs of the model *)

Checking == <<"Assets", "Cash", "Checking">>
LedgerMeta == [filename |-> "ledger.bean", lineno |-> 7]

Txn(date, postings, tags, meta) ==
    [kind |-> "Transaction", date |-> date, postings |-> postings, tags |-> tags,
     meta |-> meta]

\* A rent receipt: cash posting with units, income posting with elided units.
Rent(date) ==
    Txn(date, <<Posting(Checking, Units(10000, "USD")),
                Posting(<<"Income", "Rent", "206-Hoover-Ave">>, NoUnits)>>,
        {}, LedgerMeta)

\* A balanced fee of another property, without metadata.
Fee(date) ==
    Txn(date, <<Posting(Checking, Units(10002, "USD")),
                Posting(<<"Expenses", "Fees", "2943-Butterfly-Palm">>,
                        Units(-10002, "USD"))>>,
        {}, <<>>)

\* An expense in another currency, with no Assets posting and no property token.
Food(date) ==
    Txn(date, <<Posting(<<"Expenses", "Food">>, Units(10000, "EUR")),
                Posting(<<"Liabilities", "Card">>, NoUnits)>>,
        {"Rent"}, LedgerMeta)

\* A transaction whose postings all have elided units.
Elided(date) ==
    Txn(date, <<Posting(Checking, NoUnits),
                Posting(<<"Income", "Rent", "206-Hoover-Ave">>, NoUnits)>>,
        {"206-hoover-ave"}, LedgerMeta)

\* An entry that is not a transaction.
OpenDirective ==
    [kind |-> "Open", date |-> 0, postings |-> <<>>, tags |-> {}, meta |-> LedgerMeta]

Dates == 0..MaxDate

EntryPool ==
    {Rent(d) : d \in Dates} \cup {Fee(d) : d \in Dates} \cup {Food(d) : d \in Dates}
    \cup {Elided(0), OpenDirective}

EntryLists == UNION {[1..n -> EntryPool] : n \in 0..MaxEntries}

RunConfigs ==
    { <<>>,
      <<KV("cash_only", "true"), KV("property_match", "YES")>>,
      <<KV("tolerance", "0"), KV("window", "0"), KV("warn_threshold", "0.5")>>,
      <<KV("amount_tolerance", "0"), KV("cash_accounts_only", "1"), KV("window", "1")>>,
      <<KV("require_property_match", "true"), KV("warn_threshold", "0"),
        KV("tolerance", "NaN")>>,
      <<KV("warn_threshold", "0.5"), KV("error_threshold", "0.8")>>,
      <<KV("error_score_threshold", "0.5"), KV("warn_score_threshold", "0.8")>>,
      <<Bare("verbose"), KV("weight", "0.5"), KV("window", "abc")>> }

----------------------------------------------------------------------------
(* One run of plugin *)

Init ==
    /\ entries \in EntryLists
    /\ config_str \in RunConfigs
    /\ pc = "start"
    /\ cfg = <<>>
    /\ txns = <<>>
    /\ index = <<>>
    /\ g = 0
    /\ pairs = <<>>
    /\ k = 0
    /\ diagnostics = <<>>
    /\ warnings = <<>>
    /\ result = <<>>
    /\ scored = <<>>
    /\ earlier = <<>>
    /\ module_default_config = DEFAULT_CONFIG
    /\ module_weights = WEIGHTS

ParsedNow == parse_config_from(module_default_config, config_str)

\* cfg = parse_config(config_str), when it returns
ParseConfig ==
    /\ pc = "start"
    /\ ParsedNow.ok
    /\ cfg' = ParsedNow.cfg
    /\ module_default_config' = DefaultsAfterParse(module_default_config, ParsedNow.cfg)
    /\ pc' = "parsed"
    /\ UNCHANGED <<module_weights, earlier, entries,
                   config_str, txns, index, g, pairs, k, diagnostics,
                   warnings, result, scored>>

\* cfg = parse_config(config_str), when int(), Decimal() or float() raises
ParseConfigRaises ==
    /\ pc = "start"
    /\ ~ParsedNow.ok
    /\ module_default_config' = DefaultsAfterParse(module_default_config, ParsedNow.cfg)
    /\ pc' = "raised"
    /\ UNCHANGED <<module_weights, earlier, entries,
                   config_str, cfg, txns, index, g, pairs, k, diagnostics,
                   warnings, result, scored>>

\* txns = [...]; diagnostics = []; index = index_transactions(txns, cfg)
IndexTransactions ==
    /\ pc = "parsed"
    /\ txns' = Transactions(entries)
    /\ index' = index_transactions(entries, Transactions(entries), cfg)
    /\ pc' = "loop"
    /\ UNCHANGED <<module_default_config, module_weights, earlier, entries,
                   config_str, cfg, g, pairs, k, diagnostics, warnings,
                   result, scored>>

\* for group in index.values(): the next group, and the pairs candidate_pairs yields for it
NextGroup ==
    /\ pc = "loop"
    /\ k = Len(pairs)
    /\ g < Len(index)
    /\ g' = g + 1
    /\ pairs' = candidate_pairs(entries, index[g + 1].txns, cfg["date_window_days"].v)
    /\ k' = 0
    /\ UNCHANGED <<module_default_config, module_weights, earlier, entries,
                   config_str, pc, cfg, txns, index, diagnostics, warnings,
                   result, scored>>

PairA == pairs[k + 1][1]
PairB == pairs[k + 1][2]
Scoring == pc = "loop" /\ k < Len(pairs)
Score == confidence_score_from(module_weights, entries[PairA], entries[PairB], cfg)
WeightsNow == WeightsAfterScore(module_weights, entries[PairA], entries[PairB], cfg)

Record(outcome) ==
    [a |-> PairA, b |-> PairB, score |-> Score.score, parts |-> Score.parts,
     outcome |-> outcome]

\* confidence_score raises (a NaN tolerance): the exception leaves plugin
ScoreRaises ==
    /\ Scoring
    /\ Score.raised
    /\ pc' = "raised"
    /\ UNCHANGED <<module_default_config, module_weights, earlier, entries,
                   config_str, cfg, txns, index, g, pairs, k, diagnostics,
                   warnings, result, scored>>

\* score >= cfg["error_score_threshold"]: diagnostics.append(_error(...))
EmitError ==
    /\ Scoring
    /\ ~Score.raised
    /\ Decide(Score.score, cfg) = "error"
    /\ diagnostics' = Append(diagnostics,
                             error(entries, PairA, PairB, Score.score, Score.parts))
    /\ scored' = Append(scored, Record("error"))
    /\ module_weights' = WeightsNow
    /\ k' = k + 1
    /\ UNCHANGED <<module_default_config, earlier, entries,
                   config_str, pc, cfg, txns, index, g, pairs, warnings, result>>

\* elif score >= cfg["warn_score_threshold"]: _warn(...)
EmitWarning ==
    /\ Scoring
    /\ ~Score.raised
    /\ Decide(Score.score, cfg) = "warning"
    /\ warnings' = Append(warnings,
                          message(entries[PairA], entries[PairB], Score.score, Score.parts))
    /\ scored' = Append(scored, Record("warning"))
    /\ module_weights' = WeightsNow
    /\ k' = k + 1
    /\ UNCHANGED <<module_default_config, earlier, entries,
                   config_str, pc, cfg, txns, index, g, pairs, diagnostics,
                   result>>

\* neither branch is taken
NoAction ==
    /\ Scoring
    /\ ~Score.raised
    /\ Decide(Score.score, cfg) = "none"
    /\ scored' = Append(scored, Record("none"))
    /\ module_weights' = WeightsNow
    /\ k' = k + 1
    /\ UNCHANGED <<module_default_config, earlier, entries,
                   config_str, pc, cfg, txns, index, g, pairs, diagnostics,
                   warnings, result>>

\* return entries, diagnostics
Return ==
    /\ pc = "loop"
    /\ k = Len(pairs)
    /\ g = Len(index)
    /\ result' = <<[entries |-> ReturnedEntries(entries, txns),
                    diagnostics |-> diagnostics]>>
    /\ pc' = "done"
    /\ UNCHANGED <<module_default_config, module_weights, earlier, entries,
                   config_str, cfg, txns, index, g, pairs, k, diagnostics,
                   warnings, scored>>

Next ==
    \/ ParseConfig
    \/ ParseConfigRaises
    \/ IndexTransactions
    \/ NextGroup
    \/ ScoreRaises
    \/ EmitError
    \/ EmitWarning
    \/ NoAction
    \/ Return

Spec == Init /\ [][Next]_vars

----------------------------------------------------------------------------
(* Runs over every config string of up to MaxParts parts, on fixed entries *)

ConfigKeys == CanonicalKeys \cup ShortKeys \cup {"weight"}
ConfigValues == {"0", "1", "YES", "abc", "NaN"}
Parts == {KV(key, value) : key \in ConfigKeys, value \in ConfigValues}
         \cup {Bare("verbose")}
ConfigStrings == UNION {[1..n -> Parts] : n \in 0..MaxParts}
ConfigEntries == { <<Rent(0), OpenDirective, Rent(0), Fee(1)>> }

InitConfig ==
    /\ entries \in ConfigEntries
    /\ config_str \in ConfigStrings
    /\ pc = "start"
    /\ cfg = <<>>
    /\ txns = <<>>
    /\ index = <<>>
    /\ g = 0
    /\ pairs = <<>>
    /\ k = 0
    /\ diagnostics = <<>>
    /\ warnings = <<>>
    /\ result = <<>>
    /\ scored = <<>>
    /\ earlier = <<>>
    /\ module_default_config = DEFAULT_CONFIG
    /\ module_weights = WEIGHTS

SpecConfig == InitConfig /\ [][Next]_vars

----------------------------------------------------------------------------
(* confidence_score applied to any two transactions, under any parsed config *)

Savings == <<"Assets", "Cash", "Savings">>

\* A refund: a negative cash amount on another account, tagged with the property.
Refund(date) ==
    Txn(date, <<Posting(Savings, Units(-10000, "USD"))>>, {"206-Hoover-Ave"}, <<>>)

\* A deposit: the cash side of a rent receipt, naming no property anywhere.
Deposit(date) ==
    Txn(date, <<Posting(Checking, Units(10000, "USD"))>>, {}, <<>>)

ScoreDates == 0..(MaxDate + 1)

ScorePool ==
    {Rent(d) : d \in ScoreDates} \cup {Fee(d) : d \in ScoreDates}
    \cup {Food(d) : d \in ScoreDates} \cup {Elided(d) : d \in ScoreDates}
    \cup {Refund(d) : d \in ScoreDates} \cup {Deposit(d) : d \in ScoreDates}

ScoreConfigs ==
    { <<KV("window", w), KV("tolerance", t), KV("cash_only", c), KV("property_match", m),
        KV("warn_threshold", h)>> :
      w \in {"-1", "0", "1", "3"}, t \in {"-1", "0", "0.03", "NaN"},
      c \in {"0", "1"}, m \in {"0", "1"}, h \in {"0", "0.8"} }

InitScore ==
    /\ entries \in [1..2 -> ScorePool]
    /\ config_str \in ScoreConfigs
    /\ pc = "start"
    /\ cfg = <<>>
    /\ txns = <<>>
    /\ index = <<>>
    /\ g = 0
    /\ pairs = <<>>
    /\ k = 0
    /\ diagnostics = <<>>
    /\ warnings = <<>>
    /\ result = <<>>
    /\ scored = <<>>
    /\ earlier = <<>>
    /\ module_default_config = DEFAULT_CONFIG
    /\ module_weights = WEIGHTS

ScoreOf12 == confidence_score_from(module_weights, entries[1], entries[2], cfg)

\* score, parts = confidence_score(txn_a, txn_b, cfg), when it returns
ApplyScore ==
    /\ pc = "parsed"
    /\ ~ScoreOf12.raised
    /\ scored' = <<[a |-> 1, b |-> 2, score |-> ScoreOf12.score, parts |-> ScoreOf12.parts,
                    outcome |-> Decide(ScoreOf12.score, cfg)]>>
    /\ pc' = "done"
    /\ module_weights' = WeightsAfterScore(module_weights, entries[1], entries[2], cfg)
    /\ UNCHANGED <<module_default_config, earlier, entries,
                   config_str, cfg, txns, index, g, pairs, k, diagnostics,
                   warnings, result>>

\* confidence_score(txn_a, txn_b, cfg), when amount_score raises
ApplyScoreRaises ==
    /\ pc = "parsed"
    /\ ScoreOf12.raised
    /\ pc' = "raised"
    /\ UNCHANGED <<module_default_config, module_weights, earlier, entries,
                   config_str, cfg, txns, index, g, pairs, k, diagnostics,
                   warnings, result, scored>>

NextScore ==
    \/ ParseConfig
    \/ ApplyScore
    \/ ApplyScoreRaises

SpecScore == InitScore /\ [][NextScore]_vars

----------------------------------------------------------------------------
(* candidate_pairs applied to any list of transactions, under any parsed window *)

PairsDates == 0..(MaxDate + 2)

\* The lists of up to n transactions of one bucket, in any date order.
RECURSIVE BucketsUpTo(_)
BucketsUpTo(n) ==
    IF n = 0 THEN {<<>>}
    ELSE BucketsUpTo(n - 1)
         \cup {Append(b, Rent(d)) : b \in {x \in BucketsUpTo(n - 1) : Len(x) = n - 1},
                                   d \in PairsDates}

PairsConfigs == {<<KV("window", w)>> : w \in {"-1", "0", "1", "3"}}

InitPairs ==
    /\ entries \in BucketsUpTo(MaxEntries + 1)
    /\ config_str \in PairsConfigs
    /\ pc = "start"
    /\ cfg = <<>>
    /\ txns = <<>>
    /\ index = <<>>
    /\ g = 0
    /\ pairs = <<>>
    /\ k = 0
    /\ diagnostics = <<>>
    /\ warnings = <<>>
    /\ result = <<>>
    /\ scored = <<>>
    /\ earlier = <<>>
    /\ module_default_config = DEFAULT_CONFIG
    /\ module_weights = WEIGHTS

\* list(candidate_pairs(txns, cfg["date_window_days"])): the generator run to its end
ApplyCandidatePairs ==
    /\ pc = "parsed"
    /\ txns' = Transactions(entries)
    /\ pairs' = candidate_pairs(entries, Transactions(entries), cfg["date_window_days"].v)
    /\ pc' = "done"
    /\ UNCHANGED <<module_default_config, module_weights, earlier, entries,
                   config_str, cfg, index, g, k, diagnostics, warnings, result, scored>>

NextPairs ==
    \/ ParseConfig
    \/ ApplyCandidatePairs

SpecPairs == InitPairs /\ [][NextPairs]_vars

----------------------------------------------------------------------------
(* plugin called again on the same entries, with the same or another config string *)

AgainConfigs ==
    { <<>>,
      <<KV("warn_threshold", "0.5")>>,
      <<KV("warn_threshold", "0")>>,
      <<KV("error_threshold", "0.5")>>,
      <<KV("error_threshold", "0.8")>>,
      <<KV("error_threshold", "0.5"), KV("warn_threshold", "0")>>,
      <<KV("tolerance", "NaN"), KV("warn_threshold", "0"), KV("property_match", "1")>>,
      <<KV("tolerance", "0"), KV("cash_only", "true")>>,
      <<KV("property_match", "1"), KV("warn_threshold", "0")>>,
      <<KV("window", "abc")>> }

\* Parts that name no setting: a word without "=" and an unknown key with a float.
UnknownParts == {Bare("verbose"), KV("weight", "0.5"), KV("weight", "NaN")}

InsertAt(parts, i, part) ==
    SubSeq(parts, 1, i) \o <<part>> \o SubSeq(parts, i + 1, Len(parts))

\* The config strings that are parts with one unknown part added somewhere.
WithUnknownPart(parts) ==
    {InsertAt(parts, i, part) : i \in 0..Len(parts), part \in UnknownParts}

AgainEntries ==
    { <<Rent(0), OpenDirective, Rent(0), Fee(1)>>,
      <<Rent(1), Rent(0), Rent(0)>>,
      <<Food(0), Elided(0), Rent(1), Food(1), Rent(0)>>,
      <<Fee(0), Elided(0), Fee(0), Rent(1)>>,
      <<Food(1), Food(0), Food(0)>>,
      <<Rent(0), Fee(0), Rent(1)>>,
      <<Refund(0), Rent(0), Fee(0), Food(1)>> }

InitAgain ==
    /\ entries \in AgainEntries
    /\ config_str \in AgainConfigs
    /\ pc = "start"
    /\ cfg = <<>>
    /\ txns = <<>>
    /\ index = <<>>
    /\ g = 0
    /\ pairs = <<>>
    /\ k = 0
    /\ diagnostics = <<>>
    /\ warnings = <<>>
    /\ result = <<>>
    /\ scored = <<>>
    /\ earlier = <<>>
    /\ module_default_config = DEFAULT_CONFIG
    /\ module_weights = WEIGHTS

\* What a call that has ended leaves behind.
Ended ==
    [config_str |-> config_str, cfg |-> cfg, raised |-> pc = "raised", index |-> index,
     diagnostics |-> diagnostics, warnings |-> warnings, result |-> result]

\* A list that outlives the call that filled it.
KeptDiagnostics(previous) == previous

\* diagnostics = []: each call starts its own list.
FreshDiagnostics(previous) == <<>>

\* plugin(entries, options, config_str) is called again, on the same entries: the locals
\* of the call that ended are gone.
CallAgain ==
    /\ pc \in {"done", "raised"}
    /\ Len(earlier) + 1 < MaxCalls
    /\ earlier' = Append(earlier, Ended)
    /\ config_str' \in AgainConfigs \cup WithUnknownPart(config_str)
    /\ pc' = "start"
    /\ cfg' = <<>>
    /\ txns' = <<>>
    /\ index' = <<>>
    /\ g' = 0
    /\ pairs' = <<>>
    /\ k' = 0
    /\ diagnostics' = FreshDiagnostics(diagnostics)
    /\ warnings' = <<>>
    /\ result' = <<>>
    /\ scored' = <<>>
    /\ UNCHANGED <<entries, module_default_config, module_weights>>

NextAgain ==
    \/ Next
    \/ CallAgain

SpecAgain == InitAgain /\ [][NextAgain]_vars

----------------------------------------------------------------------------
(* The legacy plugin, ledger/plugins/find_duplicates.py, called after the aliasing one
   on the same entries and config string. Its functions are those of the aliasing
   plugin line for line, except that its defaults and parse_config use the short key
   names and every read of cfg names the short key. *)

\* _DEFAULT_CONFIG of the legacy module
legacy_DEFAULT_CONFIG ==
    [key \in ShortKeys |->
        CASE key = "error_threshold" -> FloatVal(DefaultErrorThreshold)
          [] key = "warn_threshold" -> FloatVal(DefaultWarnThreshold)
          [] key = "window" -> IntVal(DefaultWindow)
          [] key = "tolerance" -> DecVal(DefaultTolerance)
          [] key = "cash_only" -> BoolVal(FALSE)
          [] key = "property_match" -> BoolVal(FALSE)]

\* A chain without the two boolean branches: every other key is a float.
legacy_CoerceNoBool(key, value) ==
    IF key = "window" THEN ParseInt(value)
    ELSE IF key = "tolerance" THEN ParseDecimal(value)
    ELSE ParseFloat(value)

\* The if/elif chain of the legacy parse_config, on the key as written.
legacy_Coerce(key, value) ==
    IF key = "window" THEN ParseInt(value)
    ELSE IF key = "tolerance" THEN ParseDecimal(value)
    ELSE IF key = "cash_only" THEN ParseBool(value)
    ELSE IF key = "property_match" THEN ParseBool(value)
    ELSE ParseFloat(value)

RECURSIVE legacy_ParseParts(_, _)
legacy_ParseParts(c, parts) ==
    IF parts = <<>> THEN [ok |-> TRUE, cfg |-> c]
    ELSE LET part == Head(parts) IN
         IF ~part.haseq THEN legacy_ParseParts(c, Tail(parts))
         ELSE LET got == legacy_Coerce(part.key, part.value)
              IN IF ~got.ok THEN [ok |-> FALSE, cfg |-> c]
                 ELSE legacy_ParseParts(SetItem(c, part.key, got.val), Tail(parts))

legacy_parse_config(s) == legacy_ParseParts(legacy_DEFAULT_CONFIG, s)

\* The short key the legacy functions read where the aliasing ones read key.
legacy_key(key) ==
    CASE key = "warn_score_threshold" -> "warn_threshold"
      [] key = "error_score_threshold" -> "error_threshold"
      [] key = "date_window_days" -> "window"
      [] key = "amount_tolerance" -> "tolerance"
      [] key = "cash_accounts_only" -> "cash_only"
      [] key = "require_property_match" -> "property_match"
      [] OTHER -> key

\* The legacy cfg as the shared operators read it: each setting under the canonical
\* name, taken from the short key the legacy code reads; any other key as stored.
legacy_cfg(c) ==
    [key \in CanonicalKeys \cup (DOMAIN c \ ShortKeys) |-> c[legacy_key(key)]]

LegacyValues == {"0", "1", "YES", "abc", "NaN"}
LegacyParts == {KV(key, value) : key \in ShortKeys, value \in LegacyValues}
LegacyConfigs == UNION {[1..n -> LegacyParts] : n \in 0..MaxParts}
LegacyEntries ==
    { <<Rent(0), OpenDirective, Rent(0), Fee(1)>>,
      <<Refund(0), Rent(0), Deposit(0), Food(1)>> }

InitLegacy ==
    /\ entries \in LegacyEntries
    /\ config_str \in LegacyConfigs
    /\ pc = "start"
    /\ cfg = <<>>
    /\ txns = <<>>
    /\ index = <<>>
    /\ g = 0
    /\ pairs = <<>>
    /\ k = 0
    /\ diagnostics = <<>>
    /\ warnings = <<>>
    /\ result = <<>>
    /\ scored = <<>>
    /\ earlier = <<>>
    /\ module_default_config = DEFAULT_CONFIG
    /\ module_weights = WEIGHTS

\* The aliasing plugin has ended; the legacy plugin is called with the same arguments.
CallLegacy ==
    /\ pc \in {"done", "raised"}
    /\ earlier = <<>>
    /\ earlier' = <<Ended>>
    /\ pc' = "legacy"
    /\ cfg' = <<>>
    /\ txns' = <<>>
    /\ index' = <<>>
    /\ g' = 0
    /\ pairs' = <<>>
    /\ k' = 0
    /\ diagnostics' = <<>>
    /\ warnings' = <<>>
    /\ result' = <<>>
    /\ scored' = <<>>
    /\ UNCHANGED <<entries, config_str, module_default_config, module_weights>>

\* cfg = parse_config(config_str) in the legacy plugin, when it returns
LegacyParseConfig ==
    /\ pc = "legacy"
    /\ legacy_parse_config(config_str).ok
    /\ cfg' = legacy_cfg(legacy_parse_config(config_str).cfg)
    /\ pc' = "parsed"
    /\ UNCHANGED <<module_default_config, module_weights, earlier, entries,
                   config_str, txns, index, g, pairs, k, diagnostics, warnings, result,
                   scored>>

\* cfg = parse_config(config_str) in the legacy plugin, when a conversion raises
LegacyParseConfigRaises ==
    /\ pc = "legacy"
    /\ ~legacy_parse_config(config_str).ok
    /\ pc' = "raised"
    /\ UNCHANGED <<module_default_config, module_weights, earlier, entries,
                   config_str, cfg, txns, index, g, pairs, k, diagnostics, warnings,
                   result, scored>>

NextLegacy ==
    \/ Next
    \/ CallLegacy
    \/ LegacyParseConfig
    \/ LegacyParseConfigRaises

SpecLegacy == InitLegacy /\ [][NextLegacy]_vars

----------------------------------------------------------------------------
(* plugin called again with the same config string on the same entries in another
   order *)

PermutedConfigs ==
    { <<>>,
      <<KV("warn_threshold", "0.5")>>,
      <<KV("property_match", "1"), KV("warn_threshold", "0")>>,
      <<KV("tolerance", "0"), KV("cash_only", "true"), KV("window", "1")>>,
      <<KV("error_threshold", "0.5"), KV("warn_threshold", "0")>>,
      <<KV("tolerance", "NaN"), KV("warn_threshold", "0"), KV("property_match", "1")>>,
      <<KV("window", "abc")>> }

PermutedEntries ==
    { <<Rent(0), Rent(1), Fee(0)>>,
      <<Rent(0), Rent(0), Fee(1)>>,
      <<Deposit(1), OpenDirective, Rent(0), Refund(1)>>,
      <<Fee(0), Elided(0), Fee(0), Rent(1)>>,
      <<Food(1), Food(0), Rent(0)>> }

InitPermuted ==
    /\ entries \in PermutedEntries
    /\ config_str \in PermutedConfigs
    /\ pc = "start"
    /\ cfg = <<>>
    /\ txns = <<>>
    /\ index = <<>>
    /\ g = 0
    /\ pairs = <<>>
    /\ k = 0
    /\ diagnostics = <<>>
    /\ warnings = <<>>
    /\ result = <<>>
    /\ scored = <<>>
    /\ earlier = <<>>
    /\ module_default_config = DEFAULT_CONFIG
    /\ module_weights = WEIGHTS

\* What a call that has ended leaves behind, with the pairs it scored and the order in
\* which the next call is given its entries: position i of the next call holds the entry
\* of position perm[i] of this one.
EndedBefore(perm) ==
    [config_str |-> config_str, cfg |-> cfg, raised |-> pc = "raised", index |-> index,
     diagnostics |-> diagnostics, warnings |-> warnings, result |-> result,
     scored |-> scored, perm |-> perm]

\* plugin(entries, options, config_str) is called again with the entries in another order
CallPermuted ==
    /\ pc \in {"done", "raised"}
    /\ earlier = <<>>
    /\ \E perm \in Permutations(DOMAIN entries) :
          /\ entries' = [i \in DOMAIN entries |-> entries[perm[i]]]
          /\ earlier' = <<EndedBefore(perm)>>
    /\ pc' = "start"
    /\ cfg' = <<>>
    /\ txns' = <<>>
    /\ index' = <<>>
    /\ g' = 0
    /\ pairs' = <<>>
    /\ k' = 0
    /\ diagnostics' = <<>>
    /\ warnings' = <<>>
    /\ result' = <<>>
    /\ scored' = <<>>
    /\ UNCHANGED <<config_str, module_default_config, module_weights>>

NextPermuted ==
    \/ Next
    \/ CallPermuted

SpecPermuted == InitPermuted /\ [][NextPermuted]_vars

----------------------------------------------------------------------------
(* Runs over just two transactions, built as the fixtures of the tests build them *)

TestMeta == [comments |-> "test"]

\* _txn(date, amount, account): a receipt, the income posting with elided units.
TestTxn(date, amount, account) ==
    Txn(date, <<Posting(account, Units(amount, "USD")),
                Posting(<<"Income", "Rent", "206-Hoover-Ave">>, NoUnits)>>,
        {}, TestMeta)

\* _txn_with_expense(date, amount, account): balanced, the expense posting is -units.
TestTxnWithExpense(date, amount, account) ==
    Txn(date, <<Posting(account, Units(amount, "USD")),
                Posting(<<"Expenses", "Repairs", "206-Hoover-Ave">>, Units(-amount, "USD"))>>,
        {}, TestMeta)

\* A receipt in another currency on the same cash account.
EuroTxn(date) ==
    Txn(date, <<Posting(Checking, Units(10000, "EUR"))>>, {}, TestMeta)

PairAmounts == {10000, 10003, 10005}

PairPool ==
    {TestTxn(d, amount, account) :
        d \in Dates, amount \in PairAmounts, account \in {Checking, Savings}}
    \cup {TestTxnWithExpense(d, amount, Checking) : d \in Dates, amount \in {10000, 5000}}
    \cup {EuroTxn(d) : d \in Dates}
    \cup {Refund(d) : d \in Dates}
    \cup {Food(d) : d \in Dates}
    \cup {TestTxn(MaxDate + 1, 10000, Checking)}

PairConfigs ==
    { <<>>,
      <<KV("warn_threshold", "0.8"), KV("error_threshold", "0.95"), KV("window", "3"),
        KV("tolerance", "0.03")>>,
      <<KV("cash_only", "true")>>,
      <<KV("property_match", "true")>>,
      <<KV("window", "0")>>,
      <<KV("window", "1")>>,
      <<KV("window", "0"), KV("property_match", "true"), KV("cash_only", "true")>>,
      <<KV("tolerance", "0")>>,
      <<KV("tolerance", "0"), KV("warn_threshold", "0.5")>>,
      <<KV("tolerance", "-1"), KV("window", "1")>>,
      <<KV("tolerance", "NaN")>>,
      <<KV("tolerance", "abc")>> }

InitPair ==
    /\ entries \in [1..2 -> PairPool]
    /\ config_str \in PairConfigs
    /\ pc = "start"
    /\ cfg = <<>>
    /\ txns = <<>>
    /\ index = <<>>
    /\ g = 0
    /\ pairs = <<>>
    /\ k = 0
    /\ diagnostics = <<>>
    /\ warnings = <<>>
    /\ result = <<>>
    /\ scored = <<>>
    /\ earlier = <<>>
    /\ module_default_config = DEFAULT_CONFIG
    /\ module_weights = WEIGHTS

SpecPair == InitPair /\ [][Next]_vars

----------------------------------------------------------------------------
(* Properties *)

Parsed == cfg # <<>>

ErrorRecords == SelectSeq(scored, LAMBDA r : r.outcome = "error")
WarningRecords == SelectSeq(scored, LAMBDA r : r.outcome = "warning")

PlaceholderMeta == [filename |-> "<find_duplicates>", lineno |-> 0]

\* C1: every scored pair at or above the error threshold appends exactly one
\* diagnostic and logs nothing; a pair below it and at or above the warn threshold
\* logs exactly one warning and appends nothing; any other pair does nothing. No pair
\* is scored twice, and the returned list is exactly the diagnostics of the error pairs.
C1_DecisionPolicy ==
    /\ \A i \in DOMAIN scored :
          LET r == scored[i]
              e == AtLeast(r.score, cfg["error_score_threshold"])
              w == AtLeast(r.score, cfg["warn_score_threshold"])
          IN /\ (r.outcome = "error") <=> e
             /\ (r.outcome = "warning") <=> (~e /\ w)
             /\ (r.outcome = "none") <=> (~e /\ ~w)
    /\ \A i, j \in DOMAIN scored :
          i # j => {scored[i].a, scored[i].b} # {scored[j].a, scored[j].b}
    /\ Len(diagnostics) = Len(ErrorRecords)
    /\ \A j \in DOMAIN diagnostics :
          /\ diagnostics[j].entry = ErrorRecords[j].b
          /\ diagnostics[j].message.score = Round2(ErrorRecords[j].score)
    /\ Len(warnings) = Len(WarningRecords)
    /\ \A j \in DOMAIN warnings : warnings[j].score = Round2(WarningRecords[j].score)
    /\ pc = "done" => result[1].diagnostics = diagnostics

\* A finished run in which one transaction is flagged twice, beside a pair that was
\* only warned about or ignored.
C1_Witness ==
    /\ pc = "done"
    /\ \E i, j \in DOMAIN result[1].diagnostics :
          i # j /\ result[1].diagnostics[i].entry = result[1].diagnostics[j].entry
    /\ Len(scored) > Len(diagnostics)

InOrder(a, b) ==
    /\ entries[a].date <= entries[b].date
    /\ entries[a].date = entries[b].date => a < b

\* C2: in every candidate pair (a, b), a is not later than b and, on equal dates,
\* a comes first in the input; every error diagnostic is attached to b, with b's own
\* metadata as its source, or the "<find_duplicates>" line 0 placeholder when b has none.
C2_PairOrderAndAttribution ==
    /\ \A i \in DOMAIN pairs : InOrder(pairs[i][1], pairs[i][2])
    /\ \A i \in DOMAIN scored : InOrder(scored[i].a, scored[i].b)
    /\ \A j \in DOMAIN diagnostics :
          j <= Len(ErrorRecords) =>
             LET r == ErrorRecords[j]
                 d == diagnostics[j]
             IN /\ d.entry = r.b
                /\ d.entry # r.a
                /\ d.source = IF entries[r.b].meta # <<>> THEN entries[r.b].meta
                              ELSE PlaceholderMeta

\* A pair the sort has put against the input order, flagged with the placeholder source.
C2_Witness ==
    /\ \E i \in DOMAIN scored : scored[i].a > scored[i].b
    /\ \E j \in DOMAIN diagnostics :
          /\ diagnostics[j].source = PlaceholderMeta
          /\ entries[diagnostics[j].entry].meta = <<>>
    /\ \E i \in DOMAIN scored :
          entries[scored[i].a].date = entries[scored[i].b].date

\* C3: no step of a run changes the entries, and the first element of the returned
\* tuple is the entries sequence as given, entries that are not transactions and
\* transactions left out of the index included.
C3_EntriesReturnedUnchanged ==
    [][/\ entries' = entries
       /\ pc' = "done" => result'[1].entries = entries]_vars

\* A finished run over three entries of which one is no transaction and one is a
\* transaction that was not indexed.
C3_Witness ==
    /\ pc = "done"
    /\ Len(entries) = MaxEntries
    /\ \E p \in DOMAIN entries : entries[p].kind # "Transaction"
    /\ \E p \in DOMAIN entries :
          /\ entries[p].kind = "Transaction"
          /\ \A i \in DOMAIN index : p \notin Range(index[i].txns)
    /\ index # <<>>
    /\ result[1].entries = entries

DisjointTokens(txn_a, txn_b) ==
    /\ property_tokens(txn_a) # {}
    /\ property_tokens(txn_b) # {}
    /\ property_tokens(txn_a) \cap property_tokens(txn_b) = {}

AllZeroParts == [x \in {"amount", "date", "account", "property"} |-> Zero]

\* C4: with require_property_match on, a pair whose transactions both have property
\* tokens and share none scores exactly 0 with the breakdown amount = date = account =
\* property = 0, whatever else they agree on (confidence_score returns, even where
\* amount_score would raise), and with both thresholds above 0 it is neither an error
\* nor a warning.
C4_PropertyVetoIsAbsolute ==
    (/\ Parsed
     /\ pc # "parsed"
     /\ Truthy(cfg["require_property_match"])
     /\ DisjointTokens(entries[1], entries[2]))
    => /\ pc = "done"
       /\ scored[1].score = Zero
       /\ scored[1].parts = AllZeroParts
       /\ (cfg["warn_score_threshold"].v > 0 /\ cfg["error_score_threshold"].v > 0)
             => scored[1].outcome = "none"

\* A vetoed pair on the same date, with amounts within tolerance and a shared cash account.
C4_Witness ==
    /\ pc = "done"
    /\ Truthy(cfg["require_property_match"])
    /\ DisjointTokens(entries[1], entries[2])
    /\ entries[1].date = entries[2].date
    /\ amount_score(entries[1], entries[2], cfg["amount_tolerance"],
                    Truthy(cfg["cash_accounts_only"])).v = 1
    /\ account_score(entries[1], entries[2]) = 1
    /\ cfg["warn_score_threshold"].v > 0
    /\ scored[1].score = Zero
    /\ scored[1].outcome = "none"

\* C5: every score confidence_score returns lies in [0, 1].
C5_ScoreInUnitInterval ==
    \A i \in DOMAIN scored :
        /\ scored[i].score.d > 0
        /\ 0 <= scored[i].score.n
        /\ scored[i].score.n <= scored[i].score.d

\* A pair further apart than a positive window, with nothing else in common: score 0.
C5_Witness ==
    /\ pc = "done"
    /\ cfg["date_window_days"].v > 0
    /\ Abs(entries[1].date - entries[2].date) > cfg["date_window_days"].v
    /\ scored[1].parts["amount"] = Zero
    /\ scored[1].parts["account"] = Zero
    /\ scored[1].score = Zero

ComparisonCurrency(p) == first_currency(entries[p], Truthy(cfg["cash_accounts_only"])).v

\* C6: two transactions with different comparison currencies are never in one bucket,
\* whether the tolerance is zero or not, are never a candidate pair and are never scored
\* together (so no warning or diagnostic names one as a duplicate of the other).
C6_CurrencyIsolation ==
    /\ \A i \in DOMAIN index : \A p, q \in Range(index[i].txns) :
          ComparisonCurrency(p) = ComparisonCurrency(q)
    /\ \A i \in DOMAIN pairs :
          ComparisonCurrency(pairs[i][1]) = ComparisonCurrency(pairs[i][2])
    /\ \A i \in DOMAIN scored :
          ComparisonCurrency(scored[i].a) = ComparisonCurrency(scored[i].b)
    /\ \A j \in DOMAIN diagnostics : \E i \in DOMAIN scored :
          /\ scored[i].b = diagnostics[j].entry
          /\ ComparisonCurrency(scored[i].a) = ComparisonCurrency(scored[i].b)

\* A finished run with zero tolerance over transactions of equal amount in two
\* currencies, in two buckets, of which a pair of one currency was scored.
C6_Witness ==
    /\ pc = "done"
    /\ cfg["amount_tolerance"] = DecVal(0)
    /\ \E i, j \in DOMAIN index :
          /\ index[i].key[1] # index[j].key[1]
          /\ index[i].key[2] = index[j].key[2]
    /\ scored # <<>>

\* A posting in scope: it has units and, under cash_accounts_only, an Assets: account.
InScope(txn, cash_only) ==
    \E i \in DOMAIN txn.postings :
        /\ txn.postings[i].units.has
        /\ cash_only => IsAssets(txn.postings[i].account)

\* C7: a transaction with no in-scope posting is in no bucket, in no candidate pair,
\* in no scored pair and is the entry of no diagnostic; every transaction in a bucket
\* has an in-scope posting; when no transaction has one, the run indexes nothing and
\* produces no diagnostic and no warning.
C7_OutOfScopeNeverCompared ==
    Parsed =>
       LET cash_only == Truthy(cfg["cash_accounts_only"])
           In(p) == entries[p].kind = "Transaction" /\ InScope(entries[p], cash_only)
       IN /\ \A i \in DOMAIN index : \A p \in Range(index[i].txns) : In(p)
          /\ \A i \in DOMAIN pairs : In(pairs[i][1]) /\ In(pairs[i][2])
          /\ \A i \in DOMAIN scored : In(scored[i].a) /\ In(scored[i].b)
          /\ \A j \in DOMAIN diagnostics : In(diagnostics[j].entry)
          /\ (pc \in {"loop", "done"} /\ \A p \in DOMAIN entries : ~In(p))
                => /\ index = <<>>
                   /\ scored = <<>>
                   /\ diagnostics = <<>>
                   /\ warnings = <<>>

\* A finished cash-only run over identical same-day expense-only transactions.
C7_Witness ==
    /\ pc = "done"
    /\ Truthy(cfg["cash_accounts_only"])
    /\ Len(entries) >= 2
    /\ \A p \in DOMAIN entries : entries[p] = Food(0)
    /\ index = <<>>
    /\ result[1].diagnostics = <<>>
    /\ warnings = <<>>

\* A part whose value int(), Decimal() or float() rejects for its key.
MalformedNumber(part) ==
    /\ part.haseq
    /\ LET key == aliases(part.key) IN
       \/ key = "date_window_days" /\ part.value \notin IntegerNumerals
       \/ key = "amount_tolerance" /\ part.value \notin (Numerals \cup NaNLiterals)
       \/ /\ key \notin {"date_window_days", "amount_tolerance", "cash_accounts_only",
                         "require_property_match"}
          /\ part.value \notin (Numerals \cup NaNLiterals)

HasMalformedNumber(parts) == \E i \in DOMAIN parts : MalformedNumber(parts[i])

\* The first half of C8: a malformed number makes the run raise in parse_config,
\* before anything is indexed, scored, logged or returned.
MalformedNumberAbortsInParse ==
    HasMalformedNumber(config_str)
    => /\ pc \in {"start", "raised"}
       /\ ~Parsed
       /\ index = <<>>
       /\ scored = <<>>
       /\ diagnostics = <<>>
       /\ warnings = <<>>
       /\ result = <<>>

\* C8: a malformed integer, decimal or float makes the run raise in parse_config
\* before anything is indexed or scored, and a run that raises has produced nothing:
\* no warning has been logged.
C8_AbortProducesNothing ==
    /\ MalformedNumberAbortsInParse
    /\ pc = "raised" => warnings = <<>>

BooleanKey(key) == aliases(key) \in {"cash_accounts_only", "require_property_match"}

\* A value that is none of the boolean literals 1, true, yes, 0, false, no.
MalformedBoolean(part) ==
    /\ part.haseq
    /\ BooleanKey(part.key)
    /\ Lower(part.value) \notin {"1", "true", "yes", "0", "false", "no"}

\* C9 as stated: a malformed boolean value makes the run raise in parse_config.
C9_MalformedBooleanAborts ==
    (\E i \in DOMAIN config_str : MalformedBoolean(config_str[i]))
    => pc \in {"start", "raised"} /\ ~Parsed

\* C9, amended: a boolean key never makes parse_config raise; a value that is not
\* 1, true or yes (in any case) is stored as False under the canonical key, and the
\* run goes on with that setting.
C9_UnrecognisedBooleanIsFalse ==
    /\ (\A i \in DOMAIN config_str :
           ~config_str[i].haseq \/ BooleanKey(config_str[i].key))
          => pc # "raised"
    /\ pc # "start" => (Parsed <=> ~HasMalformedNumber(config_str))
    /\ Parsed =>
          \A i \in DOMAIN config_str :
             (/\ config_str[i].haseq
              /\ BooleanKey(config_str[i].key)
              /\ Lower(config_str[i].value) \notin {"1", "true", "yes"}
              /\ \A j \in DOMAIN config_str :
                    j > i => ~(/\ config_str[j].haseq
                               /\ aliases(config_str[j].key) = aliases(config_str[i].key)))
             => cfg[aliases(config_str[i].key)] = BoolVal(FALSE)

\* A finished run whose config held "abc" for a boolean key, which reads False.
C9_Witness ==
    /\ pc = "done"
    /\ \E i \in DOMAIN config_str :
          /\ MalformedBoolean(config_str[i])
          /\ config_str[i].value = "abc"
          /\ cfg[aliases(config_str[i].key)] = BoolVal(FALSE)

\* The config string with every key replaced by its canonical name.
Canonical(parts) ==
    [i \in DOMAIN parts |->
        IF parts[i].haseq THEN KV(aliases(parts[i].key), parts[i].value) ELSE parts[i]]

\* C10: a config string parses to the same Config (or raises alike) as the string
\* with its short keys replaced by the canonical ones; nothing is stored under a short
\* name, and each canonical setting has its own type. A single part short=v sets
\* exactly the canonical key, to v coerced as that key is.
C10_AliasesEquivalent ==
    pc # "start" =>
       /\ Parsed <=> parse_config(Canonical(config_str)).ok
       /\ Parsed =>
             /\ cfg = parse_config(Canonical(config_str)).cfg
             /\ DOMAIN cfg \cap ShortKeys = {}
             /\ cfg["date_window_days"].t = "int"
             /\ cfg["amount_tolerance"].t = "Decimal"
             /\ cfg["cash_accounts_only"].t = "bool"
             /\ cfg["require_property_match"].t = "bool"
             /\ cfg["error_score_threshold"].t = "float"
             /\ cfg["warn_score_threshold"].t = "float"
             /\ (Len(config_str) = 1 /\ config_str[1].key \in ShortKeys)
                   => LET key == aliases(config_str[1].key) IN
                      cfg = [x \in CanonicalKeys |->
                               IF x = key THEN Coerce(key, config_str[1].value).val
                               ELSE DEFAULT_CONFIG[x]]

\* A finished run configured by the single part tolerance=1: Decimal 1.00 under
\* amount_tolerance.
C10_Witness ==
    /\ pc = "done"
    /\ config_str = <<KV("tolerance", "1")>>
    /\ cfg["amount_tolerance"] = DecVal(100)
    /\ DOMAIN cfg = CanonicalKeys

\* A part without "=", or a part key=value whose key is no setting and no alias and
\* whose value float() accepts.
Inert(part) ==
    \/ ~part.haseq
    \/ /\ aliases(part.key) \notin CanonicalKeys
       /\ part.value \in (Numerals \cup NaNLiterals)

WithoutInert(parts) == SelectSeq(parts, LAMBDA part : ~Inert(part))

\* The six canonical settings of a parsed config.
Settings(c) == [key \in CanonicalKeys |-> c[key]]

\* Whether the current call has ended as the earlier call e did, with the same
\* diagnostics, the same warnings and the same returned tuple.
SameOutcome(e) ==
    /\ e.raised = (pc = "raised")
    /\ e.diagnostics = diagnostics
    /\ e.warnings = warnings
    /\ e.result = result

\* C11: a part without "=" stores nothing and a part key=value with an unknown key
\* stores float(value) under that key, neither raising; the six canonical settings are
\* what parse_config makes of the string without such parts, and a call ends with the
\* same diagnostics and warnings as a call on the same entries whose config string
\* differs only by such parts.
C11_UnknownTokensChangeNothing ==
    /\ (\A i \in DOMAIN config_str : Inert(config_str[i])) => pc # "raised"
    /\ Parsed =>
          /\ Settings(cfg) = Settings(parse_config(WithoutInert(config_str)).cfg)
          /\ DOMAIN cfg = CanonicalKeys
                          \cup {aliases(config_str[i].key) :
                                  i \in {j \in DOMAIN config_str : config_str[j].haseq}}
          /\ \A i \in DOMAIN config_str :
                (/\ config_str[i].haseq
                 /\ Inert(config_str[i])
                 /\ \A j \in DOMAIN config_str :
                       j > i => ~(config_str[j].haseq /\ config_str[j].key = config_str[i].key))
                => cfg[config_str[i].key] = ParseFloat(config_str[i].value).val
    /\ pc \in {"done", "raised"} =>
          \A i \in DOMAIN earlier :
              WithoutInert(earlier[i].config_str) = WithoutInert(config_str)
              => /\ SameOutcome(earlier[i])
                 /\ ~earlier[i].raised => Settings(earlier[i].cfg) = Settings(cfg)

\* A call configured with an unknown key and a warn threshold, after a call with the
\* warn threshold alone: both warn, and both flag the same entry.
C11_Witness ==
    /\ pc = "done"
    /\ earlier # <<>>
    /\ earlier[1].config_str = <<KV("warn_threshold", "0.5")>>
    /\ config_str = <<KV("weight", "NaN"), KV("warn_threshold", "0.5")>>
    /\ cfg["weight"] = FloatNaN
    /\ cfg["date_window_days"] = IntVal(DefaultWindow)
    /\ warnings # <<>>
    /\ result[1].diagnostics # <<>>
    /\ earlier[1].result = result

\* The six settings are the defaults, given or not.
DefaultSettings == Parsed /\ Settings(cfg) = DEFAULT_CONFIG

\* The signed net amount the run compares for the entry at position p.
Net(p) == net_amount(entries[p], Truthy(cfg["cash_accounts_only"]))

\* Both entries have a comparison currency, and it is the same.
SameCurrency ==
    /\ ~first_currency(entries[1], Truthy(cfg["cash_accounts_only"])).isnone
    /\ first_currency(entries[1], Truthy(cfg["cash_accounts_only"]))
          = first_currency(entries[2], Truthy(cfg["cash_accounts_only"]))

SharedCashAccount == cash_accounts(entries[1]) \cap cash_accounts(entries[2]) # {}

DaysApart == Abs(entries[1].date - entries[2].date)

\* The breakdown amount, date, account with the given values.
Breakdown(amount, date, account) ==
    [x \in {"amount", "date", "account"} |->
        CASE x = "amount" -> amount [] x = "date" -> date [] x = "account" -> account]

\* The earlier and the later entry of a run over two entries, as candidate_pairs orders them.
First == IF entries[2].date < entries[1].date THEN 2 ELSE 1
Second == IF entries[2].date < entries[1].date THEN 1 ELSE 2

\* C12: under the default settings, two transactions of one currency on the same date
\* whose net amounts differ by at most the tolerance and that share an Assets: account
\* score exactly 1 (amount = date = account = 1), and the run over the two returns
\* exactly one diagnostic, attached to the second, and logs no warning.
C12_SameDayMatchIsOneError ==
    (/\ DefaultSettings
     /\ SameCurrency
     /\ DaysApart = 0
     /\ Abs(Net(1).v - Net(2).v) <= cfg["amount_tolerance"].v
     /\ SharedCashAccount)
    => /\ confidence_score(entries[1], entries[2], cfg)
             = [raised |-> FALSE, score |-> One, parts |-> Breakdown(One, One, One)]
       /\ pc # "raised"
       /\ pc = "done" =>
             /\ scored = <<[a |-> 1, b |-> 2, score |-> One,
                            parts |-> Breakdown(One, One, One), outcome |-> "error"]>>
             /\ Len(result[1].diagnostics) = 1
             /\ result[1].diagnostics[1].entry = 2
             /\ result[1].diagnostics[1].message.score = 100
             /\ warnings = <<>>

\* A finished default run over two same-day receipts on one account whose amounts
\* differ by exactly the tolerance: one diagnostic.
C12_Witness ==
    /\ pc = "done"
    /\ DefaultSettings
    /\ entries = <<TestTxn(0, 10000, Checking), TestTxn(0, 10003, Checking)>>
    /\ Abs(Net(1).v - Net(2).v) = DefaultTolerance
    /\ Len(result[1].diagnostics) = 1
    /\ scored[1].score = One

\* C13: under the default settings, two transactions with the same amount that share
\* an Assets: account and are exactly one day apart score 0.90 (amount = 1,
\* date = 1 - 1/3, account = 1); the run over the two logs exactly one warning, naming
\* the later one as the likely duplicate of the earlier, and returns no diagnostic.
C13_OneDayApartIsOneWarning ==
    (/\ DefaultSettings
     /\ SameCurrency
     /\ DaysApart = 1
     /\ Net(1).v = Net(2).v
     /\ SharedCashAccount)
    => /\ confidence_score(entries[First], entries[Second], cfg)
             = [raised |-> FALSE, score |-> Rat(9, 10),
                parts |-> Breakdown(One, Rat(2, 3), One)]
       /\ pc # "raised"
       /\ diagnostics = <<>>
       /\ pc = "done" =>
             /\ scored = <<[a |-> First, b |-> Second, score |-> Rat(9, 10),
                            parts |-> Breakdown(One, Rat(2, 3), One),
                            outcome |-> "warning"]>>
             /\ result[1].diagnostics = <<>>
             /\ warnings = <<[score |-> 90,
                              detail |-> Breakdown(100, 67, 100),
                              later |-> entries[Second].date,
                              earlier |-> entries[First].date]>>

\* A finished default run over 100.00 on the 12th and 100.00 on the 13th, same account.
C13_Witness ==
    /\ pc = "done"
    /\ DefaultSettings
    /\ entries = <<TestTxn(0, 10000, Checking), TestTxn(1, 10000, Checking)>>
    /\ Len(warnings) = 1
    /\ warnings[1].score = 90
    /\ result[1].diagnostics = <<>>

DefaultThresholds ==
    /\ cfg["warn_score_threshold"] = FloatVal(DefaultWarnThreshold)
    /\ cfg["error_score_threshold"] = FloatVal(DefaultErrorThreshold)

\* Both entries have a net amount, and the two differ by more than the tolerance.
OutsideTolerance ==
    /\ Parsed
    /\ ~cfg["amount_tolerance"].nan
    /\ ~Net(1).isnone
    /\ ~Net(2).isnone
    /\ Abs(Net(1).v - Net(2).v) > cfg["amount_tolerance"].v

\* C14: for a pair whose signed net amounts differ by more than amount_tolerance the
\* amount component is 0 whatever the dates and accounts, the score is at most 1/2
\* with property matching off and at most 0.7/1.2 with it on, and under the default
\* thresholds the run over the pair produces no diagnostic and no warning.
C14_OutsideToleranceNeverFlagged ==
    OutsideTolerance =>
       LET s == confidence_score(entries[First], entries[Second], cfg) IN
       /\ ~s.raised
       /\ s.parts["amount"] = Zero
       /\ IF Truthy(cfg["require_property_match"])
          THEN 12 * s.score.n <= 7 * s.score.d
          ELSE 2 * s.score.n <= s.score.d
       /\ pc # "raised"
       /\ \A i \in DOMAIN scored :
             /\ scored[i].parts["amount"] = Zero
             /\ scored[i].score = s.score
       /\ DefaultThresholds =>
             /\ diagnostics = <<>>
             /\ warnings = <<>>
             /\ pc = "done" => result[1].diagnostics = <<>>

\* A finished default run over 100.00 and 100.05 on the same day and account: the pair
\* was scored 0.5, the most such a pair can get, and nothing was flagged.
C14_Witness ==
    /\ pc = "done"
    /\ DefaultSettings
    /\ OutsideTolerance
    /\ entries = <<TestTxn(0, 10000, Checking), TestTxn(0, 10005, Checking)>>
    /\ Len(scored) = 1
    /\ scored[1].score = Rat(1, 2)
    /\ scored[1].outcome = "none"
    /\ warnings = <<>>
    /\ result[1].diagnostics = <<>>

\* The postings of a transaction that have units and an Assets: account.
AssetsPostings(txn) ==
    SelectSeq(txn.postings, LAMBDA p : p.units.has /\ IsAssets(p.account))

\* Every posting has units and the numbers sum to zero.
Balanced(txn) ==
    /\ \A i \in DOMAIN txn.postings : txn.postings[i].units.has
    /\ SumNumbers(txn.postings) = 0

CashOnly == Parsed /\ Truthy(cfg["cash_accounts_only"])

\* C15: with cash_accounts_only on, the comparison amount and currency of a transaction
\* come from its Assets: postings with units alone (none: no amount, no currency); two
\* balanced transactions on the same date that share a cash account and whose
\* Assets-side amounts differ by more than the tolerance get amount component 0 and,
\* under the default thresholds, no diagnostic and no warning.
C15_CashOnlyComparesAssetsSide ==
    CashOnly =>
       /\ \A p \in DOMAIN entries :
             /\ Net(p) = IF AssetsPostings(entries[p]) = <<>> THEN None
                         ELSE Some(SumNumbers(AssetsPostings(entries[p])))
             /\ first_currency(entries[p], TRUE)
                   = IF AssetsPostings(entries[p]) = <<>> THEN NoCurrency
                     ELSE Some(AssetsPostings(entries[p])[1].units.currency)
       /\ (/\ Balanced(entries[1])
           /\ Balanced(entries[2])
           /\ DaysApart = 0
           /\ SharedCashAccount
           /\ ~cfg["amount_tolerance"].nan
           /\ Abs(SumNumbers(AssetsPostings(entries[1]))
                  - SumNumbers(AssetsPostings(entries[2]))) > cfg["amount_tolerance"].v)
          => /\ confidence_score(entries[1], entries[2], cfg).parts["amount"] = Zero
             /\ \A i \in DOMAIN scored : scored[i].parts["amount"] = Zero
             /\ DefaultThresholds =>
                   /\ diagnostics = <<>>
                   /\ warnings = <<>>
                   /\ pc = "done" => result[1].diagnostics = <<>>

\* A finished cash-only run over two balanced same-day repairs of 100.00 and 50.00 on
\* one account: both net to zero over all postings, and the pair scored 0.5.
C15_Witness ==
    /\ pc = "done"
    /\ CashOnly
    /\ entries = <<TestTxnWithExpense(0, 10000, Checking),
                   TestTxnWithExpense(0, 5000, Checking)>>
    /\ net_amount(entries[1], FALSE) = net_amount(entries[2], FALSE)
    /\ Len(scored) = 1
    /\ scored[1].parts["amount"] = Zero
    /\ scored[1].score = Rat(1, 2)
    /\ warnings = <<>>
    /\ result[1].diagnostics = <<>>

ZeroWindow == Parsed /\ cfg["date_window_days"] = IntVal(0)

\* C16: with date_window_days = 0 the date component is 0 for every pair, same-day
\* pairs included; only same-day pairs are candidates; a score is at most 0.70 (0.9/1.2
\* with property matching on); and under the default thresholds no pair, not even a
\* same-day same-amount same-account one, produces a warning or an error.
C16_ZeroWindowNeverFlags ==
    ZeroWindow =>
       /\ date_score(entries[1], entries[2], cfg["date_window_days"].v) = Zero
       /\ \A i \in DOMAIN pairs : entries[pairs[i][1]].date = entries[pairs[i][2]].date
       /\ \A i \in DOMAIN scored :
             /\ scored[i].parts["date"] = Zero
             /\ IF Truthy(cfg["require_property_match"])
                THEN 12 * scored[i].score.n <= 9 * scored[i].score.d
                ELSE 10 * scored[i].score.n <= 7 * scored[i].score.d
             /\ DefaultThresholds => scored[i].outcome = "none"
       /\ DefaultThresholds =>
             /\ diagnostics = <<>>
             /\ warnings = <<>>
             /\ pc = "done" => result[1].diagnostics = <<>>

\* A finished run with window=0 over two identical same-day receipts: scored 0.70,
\* the most a pair can get, and not flagged.
C16_Witness ==
    /\ pc = "done"
    /\ ZeroWindow
    /\ DefaultThresholds
    /\ entries = <<TestTxn(0, 10000, Checking), TestTxn(0, 10000, Checking)>>
    /\ Len(scored) = 1
    /\ scored[1].parts = Breakdown(One, Zero, One)
    /\ scored[1].score = Rat(7, 10)
    /\ scored[1].outcome = "none"
    /\ warnings = <<>>
    /\ result[1].diagnostics = <<>>

\* Two parsed configs agree on every canonical setting but the one named.
SameExcept(c1, c2, key) == \A x \in CanonicalKeys \ {key} : c1[x] = c2[x]

\* v1 <= v2 for two float settings; a NaN is not ordered.
NotAbove(v1, v2) == ~v1.nan /\ ~v2.nan /\ v1.v <= v2.v

CallEnded == pc \in {"done", "raised"}

\* The number of diagnostics a call returned (none when it raised).
Returned(res) == IF res = <<>> THEN 0 ELSE Len(res[1].diagnostics)

\* C17: of two calls on the same entries whose settings differ in error_score_threshold
\* alone, the one with the higher threshold appends and returns no more diagnostics; of
\* two that differ in warn_score_threshold alone, the one with the higher threshold
\* logs no more warnings; and the two end alike (both return or both raise).
C17_ThresholdsMonotonic ==
    (CallEnded /\ Parsed) =>
       \A i \in DOMAIN earlier :
          LET e == earlier[i] IN
          e.cfg # <<>> =>
             /\ (/\ SameExcept(e.cfg, cfg, "error_score_threshold")
                 /\ NotAbove(e.cfg["error_score_threshold"], cfg["error_score_threshold"]))
                => /\ Len(diagnostics) <= Len(e.diagnostics)
                   /\ Returned(result) <= Returned(e.result)
                   /\ e.raised = (pc = "raised")
             /\ (/\ SameExcept(e.cfg, cfg, "error_score_threshold")
                 /\ NotAbove(cfg["error_score_threshold"], e.cfg["error_score_threshold"]))
                => /\ Len(e.diagnostics) <= Len(diagnostics)
                   /\ Returned(e.result) <= Returned(result)
             /\ (/\ SameExcept(e.cfg, cfg, "warn_score_threshold")
                 /\ NotAbove(e.cfg["warn_score_threshold"], cfg["warn_score_threshold"]))
                => /\ Len(warnings) <= Len(e.warnings)
                   /\ e.raised = (pc = "raised")
             /\ (/\ SameExcept(e.cfg, cfg, "warn_score_threshold")
                 /\ NotAbove(cfg["warn_score_threshold"], e.cfg["warn_score_threshold"]))
                => Len(e.warnings) <= Len(warnings)

\* A call with error threshold 0.5 that returned three diagnostics, then a call on the
\* same entries with the default 0.95 that returns one and logs the other two pairs.
C17_Witness ==
    /\ pc = "done"
    /\ earlier # <<>>
    /\ ~earlier[1].raised
    /\ SameExcept(earlier[1].cfg, cfg, "error_score_threshold")
    /\ earlier[1].cfg["error_score_threshold"] = FloatVal(50)
    /\ cfg["error_score_threshold"] = FloatVal(DefaultErrorThreshold)
    /\ Returned(earlier[1].result) = 3
    /\ Returned(result) = 1
    /\ Len(warnings) = 2

\* The windows date_score is compared over: negative, zero and positive.
Windows == (0 - 2)..MaxWindow

\* r1 <= r2 for two rationals with positive denominators.
Leq(r1, r2) == r1.n * r2.d <= r2.n * r1.d

\* C18: for the two transactions and any integer windows w1 <= w2, zero and negative
\* ones included, date_score at w1 is at most date_score at w2; in particular the date
\* component confidence_score returned lies between those of every smaller and every
\* larger window.
C18_DateScoreMonotoneInWindow ==
    /\ \A w1, w2 \in Windows :
          w1 <= w2 => Leq(date_score(entries[1], entries[2], w1),
                          date_score(entries[1], entries[2], w2))
    /\ (pc = "done" /\ ~PropertyVeto(entries[1], entries[2], cfg)) =>
          \A w \in Windows :
             /\ w <= cfg["date_window_days"].v
                   => Leq(date_score(entries[1], entries[2], w), scored[1].parts["date"])
             /\ w >= cfg["date_window_days"].v
                   => Leq(scored[1].parts["date"], date_score(entries[1], entries[2], w))

\* A pair two days apart scored with window 3: date 1/3, above the 0 of windows 2, 0
\* and -1 and below the 1/2 of window 4.
C18_Witness ==
    /\ pc = "done"
    /\ DaysApart = 2
    /\ cfg["date_window_days"] = IntVal(3)
    /\ scored[1].parts["date"] = Rat(1, 3)
    /\ date_score(entries[1], entries[2], 4) = Rat(1, 2)
    /\ date_score(entries[1], entries[2], 2) = Zero
    /\ date_score(entries[1], entries[2], 0) = Zero
    /\ date_score(entries[1], entries[2], 0 - 1) = Zero

\* C19: a call on the same entries with the same config string as an earlier call ends
\* as that one did: it parses to the same config, raises iff that one raised, logs the
\* same warnings in the same order and returns a diagnostics list of the same length
\* with the same source, message and entry at each place.
C19_RepeatedRunsIdentical ==
    CallEnded =>
       \A i \in DOMAIN earlier :
          earlier[i].config_str = config_str =>
             LET e == earlier[i] IN
             /\ e.cfg = cfg
             /\ e.raised = (pc = "raised")
             /\ Len(e.warnings) = Len(warnings)
             /\ \A j \in DOMAIN warnings : e.warnings[j] = warnings[j]
             /\ Len(e.diagnostics) = Len(diagnostics)
             /\ Returned(e.result) = Returned(result)
             /\ pc = "done" =>
                   /\ Len(e.result[1].diagnostics) = Len(result[1].diagnostics)
                   /\ \A j \in DOMAIN result[1].diagnostics :
                         /\ e.result[1].diagnostics[j].source = result[1].diagnostics[j].source
                         /\ e.result[1].diagnostics[j].message
                               = result[1].diagnostics[j].message
                         /\ e.result[1].diagnostics[j].entry = result[1].diagnostics[j].entry
                   /\ e.result[1].entries = result[1].entries

\* The second of two calls with one config string, each returning several diagnostics
\* and logging a warning.
C19_Witness ==
    /\ pc = "done"
    /\ earlier # <<>>
    /\ earlier[1].config_str = config_str
    /\ Len(result[1].diagnostics) >= 2
    /\ warnings # <<>>
    /\ earlier[1].result = result
    /\ earlier[1].warnings = warnings

\* The index has been built by the current call.
IndexBuilt == Parsed /\ pc # "parsed"

\* C20: the index of a call equals what index_transactions makes of the same
\* transactions and config, and equals the index an earlier call built from the same
\* entries under the same settings; the bucket keys are distinct, each bucket lists
\* its transactions in their order in the input, every transaction with an in-scope
\* posting is in exactly one bucket and no other entry is in any.
C20_IndexingRepeatableAndOrdered ==
    IndexBuilt =>
       /\ index = index_transactions(entries, Transactions(entries), cfg)
       /\ \A i \in DOMAIN earlier :
             (/\ earlier[i].cfg # <<>>
              /\ Settings(earlier[i].cfg) = Settings(cfg))
             => earlier[i].index = index
       /\ \A i, j \in DOMAIN index : i # j => index[i].key # index[j].key
       /\ \A i \in DOMAIN index :
             /\ index[i].txns # <<>>
             /\ \A m, n \in DOMAIN index[i].txns :
                   m < n => index[i].txns[m] < index[i].txns[n]
       /\ \A p \in DOMAIN entries :
             LET holding == {i \in DOMAIN index : p \in Range(index[i].txns)} IN
             IF /\ entries[p].kind = "Transaction"
                /\ InScope(entries[p], Truthy(cfg["cash_accounts_only"]))
             THEN Cardinality(holding) = 1
             ELSE holding = {}

\* A second call under the same settings: two buckets of two transactions each, in
\* input order, an elided transaction in neither, the same index as the first call built.
C20_Witness ==
    /\ pc = "done"
    /\ earlier # <<>>
    /\ earlier[1].cfg # <<>>
    /\ Settings(earlier[1].cfg) = Settings(cfg)
    /\ entries = <<Food(0), Elided(0), Rent(1), Food(1), Rent(0)>>
    /\ index = <<[key |-> <<"EUR">>, txns |-> <<1, 4>>],
                 [key |-> <<"USD">>, txns |-> <<3, 5>>]>>
    /\ earlier[1].index = index

----------------------------------------------------------------------------
(* C21: the module tables are never written *)

\* What the pairs scored so far in this call would score in a freshly imported module.
ScoredAsFresh ==
    \A i \in DOMAIN scored :
        LET fresh == confidence_score(entries[scored[i].a], entries[scored[i].b], cfg)
        IN /\ ~fresh.raised
           /\ scored[i].score = fresh.score
           /\ scored[i].parts = fresh.parts

\* C21: after any sequence of calls, with any config strings, _DEFAULT_CONFIG and
\* _WEIGHTS hold their initial values: _WEIGHTS has no "property" key and no default is
\* overwritten by a parsed value. So a call computes what it would compute in a freshly
\* imported module: its cfg is the defaults overlaid with its own config string, and
\* each of its scores is the score of its own arguments.
C21_ModuleTablesNeverMutated ==
    /\ module_default_config = DEFAULT_CONFIG
    /\ module_weights = WEIGHTS
    /\ "property" \notin DOMAIN module_weights
    /\ Parsed => cfg = parse_config(config_str).cfg
    /\ pc = "raised" /\ cfg = <<>> => ~parse_config(config_str).ok
    /\ ScoredAsFresh

\* A call that overrode defaults and scored pairs with the property weight ended, and a
\* later call without property matching has scored a pair.
C21_Witness ==
    /\ Len(earlier) = 1
    /\ ~earlier[1].raised
    /\ Truthy(earlier[1].cfg["require_property_match"])
    /\ earlier[1].cfg["warn_score_threshold"] # DEFAULT_CONFIG["warn_score_threshold"]
    /\ earlier[1].warnings # <<>>
    /\ pc = "done"
    /\ ~Truthy(cfg["require_property_match"])
    /\ cfg["warn_score_threshold"] = DEFAULT_CONFIG["warn_score_threshold"]
    /\ scored # <<>>

----------------------------------------------------------------------------
(* C22: bucketing by amount under a zero tolerance *)

ZeroTolerance == Parsed /\ cfg["amount_tolerance"] = DecVal(0)

\* The index the run would build with one bucket per currency: index_transactions takes
\* its else branch, key = (currency,), whenever the tolerance is not zero.
IndexByCurrency ==
    index_transactions(entries, Transactions(entries),
                       SetItem(cfg, "amount_tolerance", DecVal(DefaultTolerance)))

\* The pairs candidate_pairs yields over the groups of IndexByCurrency.
PairsByCurrency ==
    UNION { Range(candidate_pairs(entries, IndexByCurrency[i].txns,
                                  cfg["date_window_days"].v)) :
            i \in DOMAIN IndexByCurrency }

\* The pairs of PairsByCurrency the loop body would flag as outcome, scored under the
\* run's own cfg (zero tolerance).
FlaggedByCurrency(outcome) ==
    {p \in PairsByCurrency :
        Decide(confidence_score(entries[p[1]], entries[p[2]], cfg).score, cfg) = outcome}

\* The pairs the run flagged as outcome.
FlaggedByRun(outcome) ==
    {<<scored[i].a, scored[i].b>> : i \in {j \in DOMAIN scored : scored[j].outcome = outcome}}

\* C22: when amount_tolerance is zero, a run that returned has produced the errors and
\* the warnings that comparing the transactions bucketed by currency alone would
\* produce, whatever the thresholds, the window and the flags.
C22_ZeroToleranceBucketingLossless ==
    pc = "done" /\ ZeroTolerance
    => /\ FlaggedByRun("error") = FlaggedByCurrency("error")
       /\ FlaggedByRun("warning") = FlaggedByCurrency("warning")

\* The same, for thresholds that a pair with amount component 0 cannot reach.
LosslessAboveAmountlessScores ==
    /\ pc = "done"
    /\ ZeroTolerance
    /\ ~AtLeast(Rat(7, 12), cfg["warn_score_threshold"])
    /\ ~AtLeast(Rat(7, 12), cfg["error_score_threshold"])
    => /\ FlaggedByRun("error") = FlaggedByCurrency("error")
       /\ FlaggedByRun("warning") = FlaggedByCurrency("warning")

----------------------------------------------------------------------------
(* C23: candidate_pairs *)

\* How many times the two positions are yielded together, in either order.
RECURSIVE TimesYielded(_, _, _)
TimesYielded(ps, p, q) ==
    IF ps = <<>> THEN 0
    ELSE (IF {Head(ps)[1], Head(ps)[2]} = {p, q} THEN 1 ELSE 0)
         + TimesYielded(Tail(ps), p, q)

WithinWindow(p, q) ==
    Abs(entries[p].date - entries[q].date) <= cfg["date_window_days"].v

\* C23: candidate_pairs yields each pair of distinct list positions whose dates are at
\* most window days apart exactly once and no pair more than window days apart (the
\* break never skips a later b that qualifies); the sequence is finite, and empty for a
\* negative window.
C23_CandidatePairsExactlyTheWindow ==
    pc = "done"
    => /\ \A p, q \in DOMAIN entries :
              p < q => TimesYielded(pairs, p, q) = (IF WithinWindow(p, q) THEN 1 ELSE 0)
       /\ \A n \in DOMAIN pairs : pairs[n][1] # pairs[n][2]
       /\ Len(pairs) <= (Len(entries) * (Len(entries) - 1)) \div 2
       /\ cfg["date_window_days"].v < 0 => pairs = <<>>

\* A list given out of date order, with a transaction beyond the window of the first of
\* the sorted list (the break is taken) and a pair yielded across the input order.
C23_Witness ==
    /\ pc = "done"
    /\ Len(entries) >= 3
    /\ \E p, q \in DOMAIN entries : p < q /\ entries[p].date > entries[q].date
    /\ \E p, q \in DOMAIN entries : ~WithinWindow(p, q)
    /\ \E n \in DOMAIN pairs : pairs[n][1] > pairs[n][2]
    /\ Len(pairs) >= 2

----------------------------------------------------------------------------
(* C24: the weighted score *)

TheScored == scored[1]
RequireProperty == Truthy(cfg["require_property_match"])
Vetoed == PropertyVeto(entries[1], entries[2], cfg)

ZeroOrOne(r) == r \in {Zero, One}
InUnitInterval(r) == r.d > 0 /\ 0 <= r.n /\ r.n <= r.d

\* (0.5*amount + 0.3*date + 0.2*account + 0.2*property) / total, in hundredths, for
\* integral amount, account and property and a rational date.
Weighted(amount, date, account, property, total) ==
    Rat((50 * amount.n + 20 * account.n + 20 * property.n) * date.d + 30 * date.n,
        total * date.d)

\* C24: for a scored pair that the property gate does not veto, the score is
\* (0.5*amount + 0.3*date + 0.2*account) / 1.0 when require_property_match is false and
\* (0.5*amount + 0.3*date + 0.2*account + 0.2*property) / 1.2 when it is true, with
\* amount, account and property each 0 or 1 and date in [0, 1]; the breakdown has a
\* property entry if and only if require_property_match is true.
C24_ScoreIsWeightedMean ==
    pc = "done" /\ scored # <<>>
    => LET parts == TheScored.parts IN
       /\ ("property" \in DOMAIN parts) <=> RequireProperty
       /\ {"amount", "date", "account"} \subseteq DOMAIN parts
       /\ ~Vetoed
          => /\ ZeroOrOne(parts["amount"])
             /\ ZeroOrOne(parts["account"])
             /\ InUnitInterval(parts["date"])
             /\ RequireProperty => ZeroOrOne(parts["property"])
             /\ TheScored.score =
                    IF RequireProperty
                    THEN Weighted(parts["amount"], parts["date"], parts["account"],
                                  parts["property"], 120)
                    ELSE Weighted(parts["amount"], parts["date"], parts["account"],
                                  Zero, 100)

\* A pair scored with property matching on and not vetoed, all four components counting
\* and the date component strictly between 0 and 1.
C24_Witness ==
    /\ pc = "done"
    /\ scored # <<>>
    /\ RequireProperty
    /\ ~Vetoed
    /\ TheScored.parts["property"] = One
    /\ TheScored.parts["amount"] = One
    /\ TheScored.parts["account"] = One
    /\ TheScored.parts["date"] = Rat(2, 3)
    /\ TheScored.score = Rat(11, 12)

----------------------------------------------------------------------------
(* C25: property matching on, a transaction without property tokens *)

OneWithoutTokens ==
    property_tokens(entries[1]) = {} \/ property_tokens(entries[2]) = {}

\* C25: when require_property_match is true and at least one transaction of a scored
\* pair has no property token, the pair is not vetoed (its date and account components
\* are those of date_score and account_score) and its property component is 0:
\* the score is (0.5*amount + 0.3*date + 0.2*account) / 1.2, at most 1/1.2, and under
\* the default thresholds the pair is never an error.
C25_TokenlessPairCapped ==
    pc = "done" /\ scored # <<>> /\ RequireProperty /\ OneWithoutTokens
    => LET parts == TheScored.parts IN
       /\ parts["property"] = Zero
       /\ parts["date"] = date_score(entries[1], entries[2], cfg["date_window_days"].v)
       /\ parts["account"] = Rat(account_score(entries[1], entries[2]), 1)
       /\ TheScored.score = Weighted(parts["amount"], parts["date"], parts["account"],
                                     Zero, 120)
       /\ Leq(TheScored.score, Rat(100, 120))
       /\ DefaultThresholds => TheScored.outcome # "error"

\* A deposit and a rent receipt of the same amount, day and cash account, compared with
\* property matching on under the default thresholds: 1/1.2, a warning.
C25_Witness ==
    /\ pc = "done"
    /\ scored # <<>>
    /\ RequireProperty
    /\ OneWithoutTokens
    /\ property_tokens(entries[1]) # property_tokens(entries[2])
    /\ DefaultThresholds
    /\ TheScored.score = Rat(5, 6)
    /\ TheScored.outcome = "warning"

----------------------------------------------------------------------------
(* C26: signed comparison, absolute bucket key *)

\* The two entries have opposite, non-zero net amounts in one currency.
OppositeAmounts ==
    /\ SameCurrency
    /\ ~Net(1).isnone
    /\ ~Net(2).isnone
    /\ Net(1).v # 0
    /\ Net(1).v = 0 - Net(2).v

\* Whether the signed net amounts of a and b both exist and differ by at most the
\* tolerance.
WithinTolerance(a, b) ==
    /\ ~Net(a).isnone
    /\ ~Net(b).isnone
    /\ ~cfg["amount_tolerance"].nan
    /\ Abs(Net(a).v - Net(b).v) <= cfg["amount_tolerance"].v

\* C26: with amount_tolerance = 0, two transactions of one currency with net amounts +X
\* and -X, X # 0, share the bucket (currency, X) and, when within the window, are scored
\* as one candidate pair whose amount component is 0; and under any tolerance the amount
\* component of a scored pair is 1 exactly when the signed net amounts differ by at most
\* the tolerance.
C26_SignedComparisonAbsoluteKey ==
    /\ pc = "done" /\ ZeroTolerance /\ OppositeAmounts
       => /\ Len(index) = 1
          /\ index[1].key = <<first_currency(entries[1], Truthy(cfg["cash_accounts_only"])).v,
                              Abs(Net(1).v)>>
          /\ index[1].txns = <<1, 2>>
          /\ DaysApart <= cfg["date_window_days"].v
             => /\ Len(scored) = 1
                /\ {scored[1].a, scored[1].b} = {1, 2}
                /\ scored[1].parts["amount"] = Zero
    /\ \A i \in DOMAIN scored :
          ~PropertyVeto(entries[scored[i].a], entries[scored[i].b], cfg)
          => (scored[i].parts["amount"] = One <=> WithinTolerance(scored[i].a, scored[i].b))

\* A finished zero-tolerance run over a refund of -100.00 and a receipt of +100.00 on the
\* same account: one bucket, one pair, amount component 0.
C26_Witness ==
    /\ pc = "done"
    /\ ZeroTolerance
    /\ OppositeAmounts
    /\ Len(scored) = 1
    /\ scored[1].parts["amount"] = Zero
    /\ scored[1].parts["account"] = One

----------------------------------------------------------------------------
(* C27: the date component, and the pair at the window boundary *)

\* 0 < r < 1
StrictlyInside(r) == 0 < r.n /\ r.n < r.d

\* Both entries are in one bucket of the index.
OneBucket == Len(index) = 1 /\ Len(index[1].txns) = 2

\* C27: date_score is max(0, 1 - gap/window) for window > 0 and 0 for window <= 0: 1 for
\* a same-day pair, strictly between 0 and 1 for a gap strictly inside the window, 0 for
\* a gap equal to or beyond it. The run scores with that value, and a pair exactly
\* window days apart is still a candidate: it is scored, with date component 0, at most
\* 0.70 with property matching off.
C27_DateScoreAndWindowBoundary ==
    /\ \A w \in Windows :
          LET d == date_score(entries[First], entries[Second], w) IN
          /\ w <= 0 => d = Zero
          /\ w > 0 /\ DaysApart = 0 => d = One
          /\ w > 0 /\ 0 < DaysApart /\ DaysApart < w
             => StrictlyInside(d) /\ d = Rat(w - DaysApart, w)
          /\ w > 0 /\ DaysApart >= w => d = Zero
    /\ \A i \in DOMAIN scored :
          ~PropertyVeto(entries[scored[i].a], entries[scored[i].b], cfg)
          => scored[i].parts["date"]
                = date_score(entries[First], entries[Second], cfg["date_window_days"].v)
    /\ pc = "done" /\ OneBucket /\ DaysApart = cfg["date_window_days"].v
       => /\ Len(scored) = 1
          /\ scored[1].parts["date"] = Zero
          /\ ~Truthy(cfg["require_property_match"]) => Leq(scored[1].score, Rat(70, 100))

\* A finished run with window = 1 over two receipts of the same amount and account one
\* day apart: scored once, date component 0, score exactly 0.70, nothing flagged.
C27_Witness ==
    /\ pc = "done"
    /\ cfg["date_window_days"] = IntVal(1)
    /\ DaysApart = 1
    /\ Len(scored) = 1
    /\ scored[1].parts["date"] = Zero
    /\ scored[1].score = Rat(7, 10)
    /\ scored[1].outcome = "none"

----------------------------------------------------------------------------
(* C28: inverted or equal thresholds *)

\* error_score_threshold <= warn_score_threshold (false when either is NaN).
Inverted ==
    /\ Parsed
    /\ ~cfg["error_score_threshold"].nan
    /\ ~cfg["warn_score_threshold"].nan
    /\ cfg["error_score_threshold"].v <= cfg["warn_score_threshold"].v

\* C28: the order of the thresholds is not validated (such a config parses and the run
\* goes on), and when error_score_threshold <= warn_score_threshold the warning branch
\* is never taken: no warning is logged, and every pair scoring at least
\* error_score_threshold is an error diagnostic and nothing else.
C28_InvertedThresholdsNeverWarn ==
    Inverted
    => /\ warnings = <<>>
       /\ \A i \in DOMAIN scored :
             /\ scored[i].outcome # "warning"
             /\ scored[i].outcome = "error"
                <=> AtLeast(scored[i].score, cfg["error_score_threshold"])
       /\ Len(diagnostics) = Len(ErrorRecords)
       /\ ~cfg["amount_tolerance"].nan => pc # "raised"

\* A finished run with error_threshold below warn_threshold in which a pair scored
\* between the two: an error, no warning.
C28_Witness ==
    /\ Inverted
    /\ pc = "done"
    /\ cfg["error_score_threshold"].v < cfg["warn_score_threshold"].v
    /\ \E i \in DOMAIN scored :
          /\ scored[i].outcome = "error"
          /\ ~AtLeast(scored[i].score, cfg["warn_score_threshold"])
    /\ \E i \in DOMAIN scored :
          AtLeast(scored[i].score, cfg["warn_score_threshold"])
    /\ Len(result[1].diagnostics) = Len(scored)

----------------------------------------------------------------------------
(* C29: the legacy plugin and the aliasing plugin *)

\* The legacy call has ended.
LegacyEnded == Len(earlier) = 1 /\ pc \in {"done", "raised"}

\* C29: on the same entries and a config string whose keys are all short names, the
\* legacy plugin returns the diagnostics the aliasing plugin returned (same entries,
\* messages and order), logs the same warnings, and raises exactly when it raised; the
\* settings the two run under are equal.
C29_LegacyAgreesOnShortKeys ==
    /\ LegacyEnded => SameOutcome(earlier[1])
    /\ LegacyEnded => (cfg = <<>>) = (earlier[1].cfg = <<>>)
    /\ Len(earlier) = 1 /\ Parsed => Settings(cfg) = Settings(earlier[1].cfg)

\* Both plugins returned under settings given by short keys, with an error diagnostic
\* and a warning each.
C29_Witness ==
    /\ LegacyEnded
    /\ pc = "done"
    /\ Settings(cfg) # DEFAULT_CONFIG
    /\ result[1].diagnostics # <<>>
    /\ warnings # <<>>
    /\ earlier[1].warnings = warnings

----------------------------------------------------------------------------
(* C30: the order of the input *)

\* The unordered pairs the records flag as outcome, each with its score; positions are
\* read through perm.
FlaggedPairs(records, perm, outcome) ==
    { [pair |-> {perm[records[i].a], perm[records[i].b]}, score |-> records[i].score] :
      i \in {j \in DOMAIN records : records[j].outcome = outcome} }

HowMany(records, outcome) ==
    Cardinality({j \in DOMAIN records : records[j].outcome = outcome})

Identity == [i \in DOMAIN entries |-> i]

\* The call on the permuted entries flagged, as outcome, the pairs the earlier call
\* flagged, with the same scores, and as many.
SameFlagged(outcome) ==
    /\ FlaggedPairs(scored, earlier[1].perm, outcome)
          = FlaggedPairs(earlier[1].scored, Identity, outcome)
    /\ HowMany(scored, outcome) = HowMany(earlier[1].scored, outcome)

\* C30: for a fixed config, a call on any permutation of the entries reports the same
\* unordered pairs as errors and the same as warnings, with the same scores, so the
\* error and warning counts are equal.
C30_FlaggedPairsOrderIndependent ==
    Len(earlier) = 1 /\ CallEnded
    => SameFlagged("error") /\ SameFlagged("warning")

\* The same, for two calls that both returned.
OrderIndependentWhenReturned ==
    Len(earlier) = 1 /\ pc = "done" /\ ~earlier[1].raised
    => SameFlagged("error") /\ SameFlagged("warning")

====
